---- MODULE Spec2Model ----
(***************************************************************************)
(* A model of the C++ core of 'literanger' (random forests): tree growth   *)
(* (TreeBase / TreeClassification), resampling, out-of-bag error, the      *)
(* serialized envelope and the merge of two forests.                       *)
(*                                                                         *)
(* Conventions.  A std::vector is a function on 0 .. n-1, so that keys and *)
(* offsets are the ones the code uses.  An unordered_map is a function on  *)
(* the set of its keys.  A double that the code only copies or compares is *)
(* an integer; a quotient of two counts is the pair [num, den].  A draw    *)
(* from a std::mt19937_64 is a choice over every value the draw can        *)
(* return.                                                                 *)
(***************************************************************************)
EXTENDS Integers, Sequences, FiniteSets, TLC

(***************************************************************************)
(* Bounds of the model.                                                    *)
(***************************************************************************)
NRow == 4
NPredictor == 2
MaxDepthBound == 3
NTree == 2

(***************************************************************************)
(* State of one TreeBase::grow call (TreeBase.decl.h:135-180 and the       *)
(* locals of grow).                                                        *)
(***************************************************************************)
VARIABLES
    parameters,          \* the TrainingParameters handed to grow
    data,                \* the Data view: x, y and the derived indexes
    case_weights,        \* the case weights handed to grow
    compute_oob_error,   \* grow's argument compute_oob_error
    is_ordered,          \* TreeBase::is_ordered
    split_keys,          \* TreeBase::split_keys
    split_values,        \* TreeBase::split_values
    left_children,       \* TreeBase::child_node_keys.first
    right_children,      \* TreeBase::child_node_keys.second
    start_pos,           \* TreeBase::start_pos
    end_pos,             \* TreeBase::end_pos
    leaf_keys,           \* TreeClassification::leaf_keys
    response_weights,    \* TreeClassification::response_weights
    sample_keys,         \* grow's local sample_keys (the in-bag buffer)
    oob_keys,            \* grow's local oob_keys (its return value)
    depth,               \* grow's local depth
    last_left_node_key,  \* grow's local last_left_node_key
    n_open_node,         \* grow's loop counter n_open_node
    node_key,            \* grow's loop counter node_key
    read_past_bucket,    \* a resampling read ran past the end of a bucket
    pc,                  \* where grow is: "start", "loop", "done", "threw"
    error,               \* the exception grow raised, "" when none
    forest_save_memory,         \* ForestBase::forest_save_memory
    forest_parameters,   \* plant's forest_parameters, one TrainingParameters per tree
    trees,               \* ForestBase::trees, the trees grown so far
    oob_keys_by_tree,    \* plant's map from tree key to the tree's OOB keys
    oob_predictions,     \* ForestClassification::oob_predictions
    tree_key,            \* the tree the OOB pass handles next
    forest_pc,           \* where plant is: "idle", "new_growth", "grow", "oob",
                         \* "error", "finalise", "done", "threw", "undefined"
    oob_error,           \* plant's result oob_error, a quotient [num, den]
    io_object,           \* the R list handed to cpp11_serialize
    io_archive,          \* the raw vector cpp11_serialize returned
    io_result,           \* the R list cpp11_deserialize returned
    io_pc,               \* "idle", "ready", "serialized", "deserialized",
                         \* "threw", "undefined"
    plant_seed,          \* plant's argument seed
    plant_n_thread,      \* plant's argument n_thread
    plant_run,           \* which of two trainings is under way: 1 or 2
    forest_gen,          \* ForestBase::gen
    plant_trees,         \* the trees of the training: TreeBase::gen and arrays
    next_tree,           \* per worker, the tree of its interval it grows next
    plant_pc,            \* "idle", "start", "grow", "done"
    first_trees,         \* the trees the first training returned
    merge_args,          \* cpp11_merge's arguments x, y, x_predictors, ...
    merge_result,        \* the R list cpp11_merge returned
    merge_error,         \* the exception cpp11_merge raised, "" when none
    merge_pc,            \* "idle", "ready", "done", "threw", "undefined"
    key_map_arg,         \* the map handed to TreeBase::transform_split_keys
    prediction_keys_by_tree, \* ForestClassification::prediction_keys_by_tree
    aggregate_predictions,   \* ForestClassification::aggregate_predictions
    predicted_trees,     \* the trees whose predict_one_tree has returned
    predict_pc,          \* "idle", "start", "predict", "done", "undefined"
    drawn_keys,          \* the key_vector draw_candidates returned
    candidate_pc,        \* "idle", "start", "ready", "threw"
    work_kind,           \* what the workers run: "OOB", "BAGGED", "INBAG",
                         \* "NODES", or "AGGREGATE"; "" when none run
    mutex,               \* ForestBase::mutex: the thread that holds it, 0 the
                         \* thread of show_progress, -1 when unlocked
    event_count,         \* ForestBase::event_count
    interrupted,         \* ForestBase::interrupted
    user_interrupt,      \* what the probe user_interrupt() returns now
    progress_pc,         \* show_progress: "idle", "lock", "test", "wait",
                         \* "wake", "done"
    worker_pc,           \* per worker: "predict", "lock_write", "write",
                         \* "unlock_write", "lock_event", "event", "done"
    work_item,           \* per worker, the item of its interval it is at
    worker_predictions,  \* per worker, its local tree_predictions / oob_values
    predictions_to_bag,  \* ForestClassification::predictions_to_bag
    prediction_nodes     \* ForestClassification::prediction_nodes

ioVars == <<io_object, io_archive, io_result, io_pc>>
runVars == <<plant_seed, plant_n_thread, plant_run, forest_gen, plant_trees,
             next_tree, plant_pc, first_trees>>
mergeVars == <<merge_args, merge_result, merge_error, merge_pc>>
callVars == <<key_map_arg>>
candidateVars == <<drawn_keys, candidate_pc>>
syncVars == <<mutex, event_count, interrupted, user_interrupt, progress_pc>>
workVars == <<work_kind, syncVars, worker_pc, work_item, worker_predictions,
              predictions_to_bag, prediction_nodes>>
predictVars == <<prediction_keys_by_tree, aggregate_predictions,
                 predicted_trees, predict_pc>>
auxVars == <<ioVars, runVars, mergeVars, callVars, workVars, candidateVars, predictVars>>
forestVars == <<forest_save_memory, forest_parameters, trees, oob_keys_by_tree, oob_predictions, tree_key,
                forest_pc, oob_error>>
growVars == <<parameters, data, case_weights, compute_oob_error, is_ordered, split_keys, split_values,
              left_children, right_children, start_pos, end_pos, leaf_keys,
              response_weights, sample_keys, oob_keys, depth, last_left_node_key,
              n_open_node, node_key, read_past_bucket, pc, error>>

vars == <<growVars, forestVars, auxVars>>

(***************************************************************************)
(* std::vector helpers.                                                    *)
(***************************************************************************)
Size(v) == Cardinality(DOMAIN v)
EmptyVec == [i \in {} |-> 0]
PushBack(v, x) == [i \in 0 .. Size(v) |-> IF i < Size(v) THEN v[i] ELSE x]
Concat(v, w) ==
    [i \in 0 .. Size(v) + Size(w) - 1 |->
        IF i < Size(v) THEN v[i] ELSE w[i - Size(v)]]
Slice(v, from, to) == [i \in 0 .. to - from - 1 |-> v[from + i]]
Values(v) == {v[i] : i \in DOMAIN v}
Swap(v, a, b) == [v EXCEPT ![a] = v[b], ![b] = v[a]]
Count(v, x) == Cardinality({i \in DOMAIN v : v[i] = x})
Vec(seq) == [i \in 0 .. Len(seq) - 1 |-> seq[i + 1]]
MapPut(m, k, x) == [j \in DOMAIN m \cup {k} |-> IF j = k THEN x ELSE m[j]]

Rows == 0 .. NRow - 1

Preds == 0 .. NPredictor - 1

(* The elements of a finite set of numbers in increasing order (std::sort   *)
(* followed by std::unique).                                                *)
SortedVec(S) ==
    [i \in 0 .. Cardinality(S) - 1 |->
        CHOOSE e \in S : Cardinality({f \in S : f < e}) = i]

(* the one element of a one-element set *)
The(S) == CHOOSE x \in S : TRUE

(* std::find: the offset of the first element equal to x, Size(v) if none.  *)
Find(v, x) ==
    IF x \in Values(v)
    THEN CHOOSE i \in DOMAIN v : v[i] = x /\ \A k \in DOMAIN v : k < i => v[k] # x
    ELSE Size(v)

(* std::lower_bound on a sorted vector: the number of elements below x.     *)
LowerBound(v, x) == Cardinality({i \in DOMAIN v : v[i] < x})

(***************************************************************************)
(* Data view (Data.defn.h).                                                *)
(***************************************************************************)
get_x(d, sample, predictor) == d.x[sample][predictor]
get_y(d, sample) == d.y[sample]

(* Data::get_response_values: the response values by first appearance.      *)
RECURSIVE ResponseValuesFrom(_, _, _)
ResponseValuesFrom(y, sample, acc) ==
    IF sample = Size(y) THEN acc
    ELSE ResponseValuesFrom(y, sample + 1,
             IF y[sample] \in Values(acc) THEN acc ELSE PushBack(acc, y[sample]))
get_response_values(y) == ResponseValuesFrom(y, 0, EmptyVec)

(* Data::new_response_index: per row, the key of its response value; a row  *)
(* whose value is not among response_values ends the loop with an          *)
(* exception, the index holding the rows before it.                        *)
RECURSIVE ResponseIndexFrom(_, _, _, _)
ResponseIndexFrom(y, response_values, j, acc) ==
    IF j = Size(y) THEN [error |-> "", response_index |-> acc]
    ELSE IF Find(response_values, y[j]) = Size(response_values)
    THEN [error |-> "InvalidArgument: Response values does not contain all values observe in data.",
          response_index |-> acc]
    ELSE ResponseIndexFrom(y, response_values, j + 1,
             PushBack(acc, Find(response_values, y[j])))
new_response_index(y, response_values) ==
    ResponseIndexFrom(y, response_values, 0, EmptyVec)

(* Data::new_sample_keys_by_response: one bucket per entry of the response  *)
(* index, rows in increasing order.                                         *)
new_sample_keys_by_response(response_index) ==
    [k \in 0 .. Size(response_index) - 1 |->
        SortedVec({j \in DOMAIN response_index : response_index[j] = k})]

(* Data::new_predictor_index: the sorted unique values of every column and, *)
(* per row, the offset of its value among them.                             *)
unique_predictor_values(x) ==
    [c \in Preds |-> SortedVec({x[r][c] : r \in DOMAIN x})]
predictor_index_mut(x) == [c \in Preds |-> [r \in DOMAIN x |-> Cardinality({i \in DOMAIN unique_predictor_values(x)[c] : unique_predictor_values(x)[c][i] <= x[r][c]})]]
predictor_index(x) ==
    [c \in Preds |->
        [r \in DOMAIN x |-> LowerBound(unique_predictor_values(x)[c], x[r][c])]]

(* The Data view as its constructor leaves it: no derived index.            *)
NewData(x, y) ==
    [x |-> x, y |-> y, n_row |-> Size(y),
     response_values |-> EmptyVec, response_index |-> EmptyVec,
     sample_keys_by_response |-> EmptyVec,
     unique |-> EmptyVec, index |-> EmptyVec]

(* The Data view as ForestClassification::new_growth leaves it before any   *)
(* tree is grown (ForestClassification.defn.h:124-129): the buckets by     *)
(* response only when some tree samples response-wise, the predictor index *)
(* only when save_memory is off.                                           *)
MakeData(x, y, any_by_response, save_mem) ==
    LET rv == get_response_values(y)
        ri == new_response_index(y, rv).response_index
    IN  [x |-> x, y |-> y, n_row |-> Size(y),
         response_values |-> rv, response_index |-> ri,
         sample_keys_by_response |->
             IF any_by_response THEN new_sample_keys_by_response(ri)
             ELSE EmptyVec,
         unique |-> IF save_mem THEN EmptyVec ELSE unique_predictor_values(x),
         index |-> IF save_mem THEN EmptyVec ELSE predictor_index(x)]

(* Input data sets: two predictor matrices and four response columns.       *)
XBits == [r \in Rows |-> [c \in Preds |-> (r \div (2 ^ c)) % 2]]
XRamp == [r \in Rows |-> [c \in Preds |-> (r + c) % NRow]]
XSet == {XBits, XRamp}
YAlt == [r \in Rows |-> (r + 1) % 2]
YHalf == [r \in Rows |-> (r \div 2) % 2]
YMod3 == [r \in Rows |-> r % 3]
YConst == [r \in Rows |-> 1]
YSet == {YAlt, YHalf, YMod3, YConst}

(***************************************************************************)
(* Draws (literanger/utility_draw.h, <random>, <algorithm>): every result  *)
(* the generator can produce.                                              *)
(***************************************************************************)
(* n draws with replacement from the keys in S. *)
draw_replace(n, S) == [0 .. n - 1 -> S]
(* n draws without replacement from the keys in S. *)
draw_no_replace(n, S) ==
    {v \in [0 .. n - 1 -> S] : \A a, b \in 0 .. n - 1 : a # b => v[a] # v[b]}
(* std::shuffle of the keys in S. *)
shuffle(S) == draw_no_replace(Cardinality(S), S)
(* the keys a std::discrete_distribution over `weights` can return *)
Positive(weights) == {k \in DOMAIN weights : weights[k] > 0}

(* inbag_counts of a draw over n_sample rows *)
CountsOf(n_sample, keys) == [j \in 0 .. n_sample - 1 |-> Count(keys, j)]
(* the loop `if (inbag_counts[j] == 0) oob_keys.emplace_back(j)` *)
OobOfCounts(inbag_counts) ==
    SortedVec({j \in DOMAIN inbag_counts : inbag_counts[j] = 0})

(* A sample fraction is held in quarters: 4 is 1.0, 2 is 0.5.               *)
(* (size_t)(n_sample * fraction)                                            *)
NInbag(n_sample, fraction) == (n_sample * fraction) \div 4
(* std::round of a non-negative number of quarters *)
Round(quarters) == (quarters + 2) \div 4

(***************************************************************************)
(* Resampling (TreeBase.defn.h:224-341).  Each operator yields the set of  *)
(* results [sample_keys, oob_keys, read_past_bucket] the call can leave.   *)
(***************************************************************************)
resample_unweighted(n_sample, replace, sample_fraction, get_oob_keys) ==
    LET n_sample_inbag == NInbag(n_sample, sample_fraction[0])
    IN  IF replace
        THEN { [sample_keys |-> draw,
                oob_keys |-> IF get_oob_keys
                             THEN OobOfCounts(CountsOf(n_sample, draw))
                             ELSE EmptyVec,
                read_past_bucket |-> FALSE]
               : draw \in draw_replace(n_sample_inbag, 0 .. n_sample - 1) }
        ELSE { [sample_keys |-> Slice(shuffled, 0, n_sample_inbag),
                oob_keys |-> IF get_oob_keys
                             THEN Slice(shuffled, n_sample_inbag, n_sample)
                             ELSE EmptyVec,
                read_past_bucket |-> FALSE]
               : shuffled \in shuffle(0 .. n_sample - 1) }

resample_weighted(n_sample, replace, sample_fraction, weights, get_oob_keys) ==
    LET n_sample_inbag == NInbag(n_sample, sample_fraction[0])
        draws == IF replace
                 THEN draw_replace(n_sample_inbag, Positive(weights))
                 ELSE draw_no_replace(n_sample_inbag, Positive(weights))
    IN  { [sample_keys |-> draw,
           oob_keys |-> IF get_oob_keys
                        THEN OobOfCounts(CountsOf(n_sample, draw))
                        ELSE EmptyVec,
           read_past_bucket |-> FALSE]
          : draw \in draws }

(* TreeClassification::resample_response_wise_impl                           *)
(* (TreeClassification.defn.h:189-255), classes j, j+1, ... of the fraction  *)
(* vector; acc is [sample_keys, inbag_counts, read_past_bucket].             *)
RECURSIVE resample_response_wise_impl(_, _, _, _, _, _)
resample_response_wise_impl(d, replace, sample_fraction, j, start, acc) ==
    IF j = Size(sample_fraction) \/ acc.read_past_bucket THEN {acc}
    ELSE
    LET end == start + sample_fraction[j]
        n_inbag_j == d.n_row * (Round(end) - Round(start))
        bucket == d.sample_keys_by_response[j]
        n_sample_j == Size(bucket)
    IN  IF replace
        THEN IF n_inbag_j > 0 /\ n_sample_j = 0
             THEN {[acc EXCEPT !.read_past_bucket = TRUE]}
             ELSE UNION {
                 resample_response_wise_impl(d, replace, sample_fraction,
                     j + 1, end,
                     [sample_keys |-> Concat(acc.sample_keys, draw),
                      inbag_counts |->
                          [r \in DOMAIN acc.inbag_counts |->
                              acc.inbag_counts[r] + Count(draw, r)],
                      read_past_bucket |-> FALSE])
                 : draw \in draw_replace(n_inbag_j, Values(bucket)) }
        ELSE UNION {
                 IF n_inbag_j > n_sample_j
                 THEN {[acc EXCEPT !.read_past_bucket = TRUE]}
                 ELSE resample_response_wise_impl(d, replace, sample_fraction,
                          j + 1, end,
                          [sample_keys |->
                               Concat(acc.sample_keys,
                                      Slice(sample_j, 0, n_inbag_j)),
                           inbag_counts |->
                               [r \in DOMAIN acc.inbag_counts |->
                                   acc.inbag_counts[r] +
                                   Count(Slice(sample_j, n_inbag_j, n_sample_j), r)],
                           read_past_bucket |-> FALSE])
                 : sample_j \in shuffle(Values(bucket)) }

resample_response_wise(d, replace, sample_fraction, get_oob_keys) ==
    { [sample_keys |-> r.sample_keys,
       oob_keys |-> IF get_oob_keys /\ ~r.read_past_bucket
                    THEN OobOfCounts(r.inbag_counts) ELSE EmptyVec,
       read_past_bucket |-> r.read_past_bucket]
      : r \in resample_response_wise_impl(d, replace, sample_fraction, 0, 0,
                  [sample_keys |-> EmptyVec,
                   inbag_counts |-> [j \in 0 .. d.n_row - 1 |-> 0],
                   read_past_bucket |-> FALSE]) }

(***************************************************************************)
(* Tree constants (TreeBase.decl.h:135-144).                               *)
(***************************************************************************)
n_predictor == NPredictor
AllOrdered == [c \in Preds |-> TRUE]

(***************************************************************************)
(* Split search of the classification tree.                                *)
(***************************************************************************)
(* the keys of the samples of a node, in buffer order *)
NodePositions(node) == start_pos[node] .. end_pos[node] - 1

(* TreeBase::get_n_sample_node *)
get_n_sample_node(node) == end_pos[node] - start_pos[node]

(* TreeClassification::new_node_aggregates: node_n_by_response *)
new_node_aggregates(node) ==
    [k \in 0 .. Size(response_weights) - 1 |->
        Cardinality({j \in NodePositions(node) :
                        data.response_index[sample_keys[j]] = k})]

(* TreeClassification::prepare_candidate_loop_via_index: the counts by      *)
(* candidate value and by candidate value and response.                     *)
node_n_by_candidate(split_key, node) ==
    [c \in 0 .. Size(data.unique[split_key]) - 1 |->
        Cardinality({j \in NodePositions(node) :
                        data.index[split_key][sample_keys[j]] = c})]
node_n_by_candidate_and_response(split_key, node) ==
    [c \in 0 .. Size(data.unique[split_key]) - 1 |->
        [k \in 0 .. Size(response_weights) - 1 |->
            Cardinality({j \in NodePositions(node) :
                            /\ data.index[split_key][sample_keys[j]] = c
                            /\ data.response_index[sample_keys[j]] = k})]]

(***************************************************************************)
(* double arithmetic.  The split searches compare decreases that were      *)
(* computed as doubles, so two decreases that are equal as quotients can   *)
(* differ after rounding.  A finite double is kept as q + e * 2^-52, both  *)
(* exact quotients [num, den] in lowest terms: q is the value the          *)
(* expression has in exact arithmetic and e the rounding error made so     *)
(* far.  Every operation rounds to the nearest double, ties to even.       *)
(***************************************************************************)
RECURSIVE Gcd(_, _)
Gcd(a, b) == IF b = 0 THEN a ELSE Gcd(b, a % b)

(* the quotient n / d, d > 0, in lowest terms *)
Quot(n, d) ==
    The({ [num |-> n \div g, den |-> d \div g]
          : g \in {Gcd(IF n < 0 THEN -n ELSE n, d)} })
QAdd(a, b) == Quot(a.num * b.den + b.num * a.den, a.den * b.den)
QSub(a, b) == Quot(a.num * b.den - b.num * a.den, a.den * b.den)
QMul(a, b) == Quot(a.num * b.num, a.den * b.den)
QLess(a, b) == a.num * b.den < b.num * a.den
QFloor(a) == a.num \div a.den

(* 2^k as a quotient, k of either sign, and 2^k modulo m for k >= 0 *)
Pow2(k) == IF k >= 0 THEN Quot(2 ^ k, 1) ELSE Quot(1, 2 ^ (-k))
RECURSIVE Pow2Mod(_, _)
Pow2Mod(k, m) ==
    IF k <= 20 THEN (2 ^ k) % m
    ELSE (Pow2Mod(k \div 2, m) * Pow2Mod(k - (k \div 2), m)) % m

(* the exponent of a positive quotient: the E with 2^E <= a < 2^(E+1) *)
RECURSIVE FloorLog2(_, _)
FloorLog2(a, E) ==
    IF QLess(a, Pow2(E)) THEN FloorLog2(a, E - 1)
    ELSE IF ~QLess(a, Pow2(E + 1)) THEN FloorLog2(a, E + 1)
    ELSE E

Finite(q, e) == [kind |-> "finite", q |-> q, e |-> e]
NaN == [kind |-> "nan", q |-> Quot(0, 1), e |-> Quot(0, 1)]
Infinity == [kind |-> "inf", q |-> Quot(0, 1), e |-> Quot(0, 1)]
NegInfinity == [kind |-> "-inf", q |-> Quot(0, 1), e |-> Quot(0, 1)]

(* rounding of the exact value q + e * 2^-52 > 0 whose exponent is E: g is *)
(* the part of the value, in units of the last place, that does not come   *)
(* from whole units of q, r2 is q in those units modulo 2; the value is    *)
(* moved down by the fraction f of g or up by 1 - f, whichever is nearer,  *)
(* and to the even neighbour when f is a half                              *)
RoundTo(q, e, E, r2) ==
    The({ The({ Finite(q, QAdd(e, QMul(Pow2(E),
                    IF \/ QLess(f, Quot(1, 2))
                       \/ /\ f = Quot(1, 2)
                          /\ ((r2 \div q.den) + QFloor(g)) % 2 = 0
                    THEN QSub(Quot(0, 1), f)
                    ELSE QSub(Quot(1, 1), f))))
                : f \in {QSub(g, Quot(QFloor(g), 1))} })
          : g \in {QAdd(Quot(r2 % q.den, q.den), QMul(e, Pow2(-E)))} })

(* the double nearest to the exact value q + e * 2^-52 >= 0; a double has  *)
(* 52 bits after the leading one, so its last place is 2^(E - 52)           *)
DblRound(q, e) ==
    IF q.num = 0 THEN Finite(q, e)
    ELSE The({ RoundTo(q, e, E,
                   ((q.num % (2 * q.den)) * Pow2Mod(52 - E, 2 * q.den))
                       % (2 * q.den))
               : E \in {The({ IF q = Pow2(L) /\ e.num < 0 THEN L - 1 ELSE L
                              : L \in {FloorLog2(q, 0)} })} })

(* the conversion of an integer, and the operators / + > of doubles; a     *)
(* comparison with a NaN is false                                          *)
DblFromInt(n) == Finite(Quot(n, 1), Quot(0, 1))
DblDivInt(a, n) ==
    IF n = 0 THEN (IF a = 0 THEN NaN ELSE Infinity)
    ELSE DblRound(Quot(a, n), Quot(0, 1))
DblAdd(x, y) ==
    IF x.kind = "nan" \/ y.kind = "nan" THEN NaN
    ELSE IF x.kind = "inf" \/ y.kind = "inf" THEN Infinity
    ELSE DblRound(QAdd(x.q, y.q), QAdd(x.e, y.e))
Greater(a, b) ==
    IF a.kind = "nan" \/ b.kind = "nan" THEN FALSE
    ELSE IF a.kind = "-inf" \/ b.kind = "inf" THEN FALSE
    ELSE IF a.kind = "inf" \/ b.kind = "-inf" THEN TRUE
    ELSE IF a.q # b.q THEN QLess(b.q, a.q)
    ELSE QLess(b.e, a.e)

Sum(f) ==
    LET RECURSIVE SumUpTo(_)
        SumUpTo(k) == IF k < 0 THEN 0 ELSE f[k] + SumUpTo(k - 1)
    IN  SumUpTo(Size(f) - 1)

(* TreeClassification::evaluate_decrease<LOGRANK>:                          *)
(* sum_rhs_sq / n_rhs + sum_lhs_sq / n_lhs                                  *)
evaluate_decrease(node_n_by_response, node_n_by_response_lhs, n_lhs, n_rhs) ==
    LET sum_lhs_sq == Sum([k \in DOMAIN node_n_by_response |->
                response_weights[k] * node_n_by_response_lhs[k]
                                    * node_n_by_response_lhs[k]])
        sum_rhs_sq == Sum([k \in DOMAIN node_n_by_response |->
                response_weights[k]
                    * (node_n_by_response[k] - node_n_by_response_lhs[k])
                    * (node_n_by_response[k] - node_n_by_response_lhs[k])])
    IN  DblAdd(DblDivInt(sum_rhs_sq, n_rhs), DblDivInt(sum_lhs_sq, n_lhs))

(* a side that holds fewer than min_leaf_n_sample - 1 samples                *)
below_min_leaf_mut(n, min_leaf_n_sample) == n + 1 < min_leaf_n_sample

(* the test of one side of a candidate split against min_leaf_n_sample      *)
(* (TreeClassification.defn.h:456-459, 511-514)                             *)
below_min_leaf(n, min_leaf_n_sample) == n < min_leaf_n_sample

(* TreeClassification::best_decrease_by_real_value, the loop from candidate *)
(* j on; best is [decrease, split_key, value].                              *)
RECURSIVE best_decrease_by_real_value(_, _, _, _, _, _, _)
best_decrease_by_real_value(split_key, node, min_leaf_n_sample, j, n_lhs_in, lhs_in, best) ==
    LET n_candidate_value == Size(data.unique[split_key])
        by_candidate == node_n_by_candidate(split_key, node)
        by_both == node_n_by_candidate_and_response(split_key, node)
        n_sample_node == get_n_sample_node(node)
    IN  IF j >= n_candidate_value - 1 THEN best
        ELSE IF by_candidate[j] = 0
        THEN best_decrease_by_real_value(split_key, node, min_leaf_n_sample,
                                         j + 1, n_lhs_in, lhs_in, best)
        ELSE
        LET n_lhs == n_lhs_in + by_candidate[j]
            lhs == [k \in DOMAIN lhs_in |-> lhs_in[k] + by_both[j][k]]
            n_rhs == n_sample_node - n_lhs
        IN  IF below_min_leaf(n_lhs, min_leaf_n_sample)
            THEN best_decrease_by_real_value(split_key, node,
                     min_leaf_n_sample, j + 1, n_lhs, lhs, best)
            ELSE IF below_min_leaf(n_rhs, min_leaf_n_sample) THEN best
            ELSE
            LET decrease == evaluate_decrease(new_node_aggregates(node),
                                              lhs, n_lhs, n_rhs)
            IN  best_decrease_by_real_value(split_key, node,
                    min_leaf_n_sample, j + 1, n_lhs, lhs,
                    IF Greater(decrease, best.decrease)
                    THEN [decrease |-> decrease, split_key |-> split_key,
                          value |-> data.unique[split_key][j]]
                    ELSE best)

(* std::bitset<64>::test on the bit-encoded partition m, the u64 whose bits *)
(* the split value holds (TreeBase.defn.h:447-449)                          *)
test(m, bit) == (m \div (2 ^ bit)) % 2 = 1

(* the bit of the factor level of a sample: floor(x - 1)                    *)
level_bit(sample, split_key) == get_x(data, sample, split_key) - 1

(* the levels of the predictor observed in the node, increasing *)
candidate_values(split_key, node) ==
    SortedVec({get_x(data, sample_keys[j], split_key) : j \in NodePositions(node)})

(* the partition of index j over the observed levels: bit k of j routes     *)
(* level candidate_values[k] right                                          *)
to_partition_key(values, j) ==
    Sum([k \in DOMAIN values |->
            IF test(j, k) THEN 2 ^ (values[k] - 1) ELSE 0])

(* TreeClassification::best_decrease_by_partition, the loop from partition  *)
(* j on                                                                     *)
RECURSIVE best_decrease_by_partition(_, _, _, _, _, _)
best_decrease_by_partition(split_key, node, n_partition, min_leaf_n_sample, j, best) ==
    IF j >= n_partition THEN best
    ELSE
    LET partition_key ==
            to_partition_key(candidate_values(split_key, node), j)
        lhs_pos == {k \in NodePositions(node) :
                       ~test(partition_key, level_bit(sample_keys[k], split_key))}
        n_lhs == Cardinality(lhs_pos)
        lhs == [r \in 0 .. Size(response_weights) - 1 |->
                   Cardinality({k \in lhs_pos :
                       data.response_index[sample_keys[k]] = r})]
        n_rhs == get_n_sample_node(node) - n_lhs
    IN  IF \/ below_min_leaf(n_lhs, min_leaf_n_sample)
           \/ below_min_leaf(n_rhs, min_leaf_n_sample)
        THEN best_decrease_by_partition(split_key, node, n_partition,
                 min_leaf_n_sample, j + 1, best)
        ELSE
        LET decrease == evaluate_decrease(new_node_aggregates(node),
                                          lhs, n_lhs, n_rhs)
        IN  best_decrease_by_partition(split_key, node, n_partition,
                min_leaf_n_sample, j + 1,
                IF Greater(decrease, best.decrease)
                THEN [decrease |-> decrease, split_key |-> split_key,
                      value |-> partition_key]
                ELSE best)

(* Tree::push_best_split: the best split over the candidate predictors, in  *)
(* their order; found when its decrease exceeds min_metric_decrease.        *)
RECURSIVE BestOverCandidates(_, _, _, _)
BestOverCandidates(node, split_candidate_keys, c, best) ==
    IF c = Size(split_candidate_keys) THEN best
    ELSE BestOverCandidates(node, split_candidate_keys, c + 1,
             IF is_ordered[split_candidate_keys[c]]
             THEN best_decrease_by_real_value(split_candidate_keys[c], node,
                      parameters.min_leaf_n_sample, 0, 0,
                      [k \in 0 .. Size(response_weights) - 1 |-> 0], best)
             ELSE best_decrease_by_partition(split_candidate_keys[c], node,
                      2 ^ (Size(candidate_values(split_candidate_keys[c], node)) - 1),
                      parameters.min_leaf_n_sample, 1, best))

push_best_split(node, split_candidate_keys) ==
    The({ [split_found |-> Greater(best.decrease,
                                   DblFromInt(parameters.min_metric_decrease)),
           split_key |-> best.split_key, split_value |-> best.value]
          : best \in {BestOverCandidates(node, split_candidate_keys, 0,
                          [decrease |-> NegInfinity, split_key |-> 0,
                           value |-> 0])} })

(* draw_no_replace_weighted: n draws without replacement from a            *)
(* std::discrete_distribution over `weights`, which returns no key of       *)
(* weight 0                                                                 *)
draw_no_replace_weighted(n, weights) == draw_no_replace(n, Positive(weights))

(* a draw that leaves out no key *)
draw_candidates_mut ==
    { Concat(drawn, parameters.draw_always_predictor_keys)
      : drawn \in draw_no_replace(parameters.n_try, 0 .. n_predictor - 1) }

(* TreeBase::draw_candidates: n_try distinct keys, drawn outside the        *)
(* always-draw keys when draw_predictor_weights is empty and by weight      *)
(* otherwise, then the always-draw keys.                                    *)
draw_candidates ==
    { Concat(drawn, parameters.draw_always_predictor_keys)
      : drawn \in
          IF Size(parameters.draw_predictor_weights) = 0
          THEN draw_no_replace(parameters.n_try,
                   (0 .. n_predictor - 1)
                       \ Values(parameters.draw_always_predictor_keys))
          ELSE draw_no_replace_weighted(parameters.n_try,
                   parameters.draw_predictor_weights) }

(***************************************************************************)
(* TreeBase::split_node (TreeBase.defn.h:354-468).  The definition names   *)
(* its second parameter last_left_node_key and its third depth; here they  *)
(* are last_left_key and cur_depth, bound by position like the C++ call.   *)
(* The result holds the node arrays and the sample buffer as the call      *)
(* leaves them.                                                            *)
(***************************************************************************)
(* TreeBase::push_back_empty_node applied to one node array *)
push_back_empty_node_mut(v) == PushBack(v, 1)
push_back_empty_node(v) == PushBack(v, 0)

(* TreeClassification::add_terminal_node: the new leaf_keys *)
add_terminal_node(key) ==
    MapPut(leaf_keys, key,
           [j \in 0 .. get_n_sample_node(key) - 1 |->
               data.response_index[sample_keys[start_pos[key] + j]]])

(* the partial sort of an unordered split (TreeBase.defn.h:446-459): sk is  *)
(* the buffer, right the moving start_pos[right_key]                        *)
PartitionUnordered_mut(sk, j, right, split_key, partition_key) == [sample_keys |-> sk, right |-> j + Cardinality({p \in j .. right - 1 : ~test(partition_key, level_bit(sk[p], split_key))})]
RECURSIVE PartitionUnordered(_, _, _, _, _)
PartitionUnordered(sk, j, right, split_key, partition_key) ==
    IF j >= right THEN [sample_keys |-> sk, right |-> right]
    ELSE IF ~test(partition_key, level_bit(sk[j], split_key))
    THEN PartitionUnordered(sk, j + 1, right, split_key, partition_key)
    ELSE PartitionUnordered(Swap(sk, j, right - 1), j, right - 1, split_key, partition_key)

(* the partial sort of an ordered split (TreeBase.defn.h:430-438)           *)
PartitionOrdered_mut(sk, j, right, split_key, split_value) == [sample_keys |-> sk, right |-> j + Cardinality({p \in j .. right - 1 : get_x(data, sk[p], split_key) <= split_value})]
RECURSIVE PartitionOrdered(_, _, _, _, _)
PartitionOrdered(sk, j, right, split_key, split_value) ==
    IF j >= right THEN [sample_keys |-> sk, right |-> right]
    ELSE IF get_x(data, sk[j], split_key) <= split_value
    THEN PartitionOrdered(sk, j + 1, right, split_key, split_value)
    ELSE PartitionOrdered(Swap(sk, j, right - 1), j, right - 1,
                          split_key, split_value)

(* the depth test of TreeBase.defn.h:368-371 *)
too_deep(key, last_left_key, cur_depth) ==
    /\ key >= last_left_key
    /\ parameters.max_depth # 0
    /\ cur_depth = parameters.max_depth

(* the guard of TreeBase.defn.h:363-365 *)
past_max_depth_mut(cur_depth) == FALSE
past_max_depth(cur_depth) ==
    parameters.max_depth # 0 /\ cur_depth > parameters.max_depth

(* the purity test of TreeBase.defn.h:379-393 with                          *)
(* TreeClassification::compare_response                                     *)
pure(key) ==
    \A j \in NodePositions(key) :
        get_y(data, sample_keys[start_pos[key]]) = get_y(data, sample_keys[j])

Unsplit(thrown) ==
    [thrown |-> thrown, did_split |-> FALSE,
     split_keys |-> split_keys, split_values |-> split_values,
     left_children |-> left_children, right_children |-> right_children,
     start_pos |-> start_pos, end_pos |-> end_pos,
     leaf_keys |-> leaf_keys, sample_keys |-> sample_keys]

(* a terminal exit that records no leaf payload *)
Terminal_mut(key) == Unsplit(FALSE)

Terminal(key) == [Unsplit(FALSE) EXCEPT !.leaf_keys = add_terminal_node(key)]

(* a left child that keeps the parent's end                                 *)
child_end_pos_mut(key, part) ==
    PushBack(PushBack(end_pos, end_pos[key]), end_pos[key])

(* end_pos after a split: the left child ends where the right child starts, *)
(* the right child where the parent ends (TreeBase.defn.h:460-462)          *)
child_end_pos(key, part) ==
    PushBack(PushBack(end_pos, part.right), end_pos[key])

(* the node arrays and the sample buffer after the split found for node key *)
(* and the partial sort part (TreeBase.defn.h:409-466)                      *)
Split(key, found, part) ==
    [thrown |-> FALSE, did_split |-> TRUE,
     split_keys |->
         push_back_empty_node(push_back_empty_node(
             [split_keys EXCEPT ![key] = found.split_key])),
     split_values |->
         push_back_empty_node(push_back_empty_node(
             [split_values EXCEPT ![key] = found.split_value])),
     left_children |->
         push_back_empty_node(push_back_empty_node(
             [left_children EXCEPT ![key] = Size(split_keys)])),
     right_children |->
         push_back_empty_node(push_back_empty_node(
             [right_children EXCEPT ![key] = Size(split_keys) + 1])),
     start_pos |->
         PushBack(PushBack(start_pos, start_pos[key]), part.right),
     end_pos |-> child_end_pos(key, part),
     leaf_keys |-> leaf_keys,
     sample_keys |-> part.sample_keys]

(* TreeBase::split_node (TreeBase.defn.h:354-468): the exits that need no   *)
(* search, then the candidate draw and the search; every outcome the draw   *)
(* can lead to                                                              *)
split_node(key, last_left_key, cur_depth) ==
    IF past_max_depth(cur_depth) THEN {Unsplit(TRUE)}
    ELSE IF get_n_sample_node(key) <= parameters.min_split_n_sample
            \/ too_deep(key, last_left_key, cur_depth)
    THEN {Terminal(key)}
    ELSE IF pure(key) THEN {Terminal(key)}
    ELSE
    { The({ IF ~found.split_found THEN Terminal(key)
            ELSE The({ Split(key, found, part)
                       : part \in {IF is_ordered[found.split_key]
                                   THEN PartitionOrdered(sample_keys,
                                            start_pos[key], end_pos[key],
                                            found.split_key, found.split_value)
                                   ELSE PartitionUnordered(sample_keys,
                                            start_pos[key], end_pos[key],
                                            found.split_key, found.split_value)} })
            : found \in {push_best_split(key, split_candidate_keys)} })
      : split_candidate_keys \in draw_candidates }

(***************************************************************************)
(* TreeBase::grow (TreeBase.defn.h:101-174).                               *)
(***************************************************************************)
(* TreeClassification::new_growth: the exception it raises, "" when none    *)
new_growth_error ==
    IF /\ parameters.split_rule = "HELLINGER"
       /\ Size(data.response_values) # 2
    THEN "RuntimeError: Cannot use Hellinger metric on non-binary data."
    ELSE IF parameters.split_rule \in {"MAXSTAT", "BETA"}
    THEN "InvalidArgument: Unsupported split metric for classification."
    ELSE IF parameters.split_rule \notin {"HELLINGER", "LOGRANK", "EXTRATREES"}
    THEN "InvalidArgument: Invalid split metric."
    ELSE IF /\ Size(parameters.response_weights) # 0
            /\ Size(data.response_values) # Size(parameters.response_weights)
    THEN "InvalidArgument: Number of response weights does not match number of observed response values"
    ELSE ""

(* TreeClassification::new_growth: response_weights as it sets them *)
new_growth_response_weights ==
    IF Size(parameters.response_weights) # 0
    THEN parameters.response_weights
    ELSE [k \in 0 .. Size(data.response_values) - 1 |-> 1]

(* the sampling branch grow takes (TreeBase.defn.h:127-149) *)
response_wise_mut == Size(parameters.sample_fraction) > 2
response_wise == Size(parameters.sample_fraction) > 1
weighted == Size(case_weights) # 0

resample ==
    IF weighted
    THEN resample_weighted(data.n_row, parameters.replace,
             parameters.sample_fraction, case_weights, compute_oob_error)
    ELSE IF response_wise
    THEN resample_response_wise(data, parameters.replace,
             parameters.sample_fraction, compute_oob_error)
    ELSE resample_unweighted(data.n_row, parameters.replace,
             parameters.sample_fraction, compute_oob_error)

loopVars == <<depth, last_left_node_key, n_open_node, node_key>>
nodeVars == <<split_keys, split_values, left_children, right_children,
              start_pos, end_pos>>
argVars == <<parameters, data, case_weights, compute_oob_error, is_ordered>>
drawVars == <<sample_keys, oob_keys, read_past_bucket>>

(* grow up to the node loop: the checks, new_growth, the root node and the  *)
(* resampling (TreeBase.defn.h:108-154); drawn is the set of the samples   *)
(* the resampling can draw                                                  *)
grow_to_loop(drawn) ==
    /\ pc = "start"
    /\ IF Size(split_keys) # 0
       THEN /\ pc' = "threw"
            /\ error' = "RuntimeError: Expected to start with empty tree."
            /\ UNCHANGED <<nodeVars, leaf_keys, response_weights, drawVars>>
       ELSE IF parameters.n_try > n_predictor
       THEN /\ pc' = "threw"
            /\ error' = "DomainError: 'n_try' can not be larger than number of predictors (columns)."
            /\ UNCHANGED <<nodeVars, leaf_keys, response_weights, drawVars>>
       ELSE IF new_growth_error # ""
       THEN /\ pc' = "threw"
            /\ error' = new_growth_error
            /\ UNCHANGED <<nodeVars, leaf_keys, response_weights, drawVars>>
       ELSE
       /\ response_weights' = new_growth_response_weights
       /\ leaf_keys' = EmptyVec
       /\ split_keys' = push_back_empty_node(split_keys)
       /\ split_values' = push_back_empty_node(split_values)
       /\ left_children' = push_back_empty_node(left_children)
       /\ right_children' = push_back_empty_node(right_children)
       /\ start_pos' = push_back_empty_node(start_pos)
       /\ IF weighted /\ response_wise
          THEN /\ pc' = "threw"
               /\ error' = "InvalidArgument: Cannot have both weighted and response-wise (class-wise) weighting."
               /\ end_pos' = push_back_empty_node(end_pos)
               /\ UNCHANGED drawVars
          ELSE IF weighted /\ Size(case_weights) # data.n_row
          THEN /\ pc' = "threw"
               /\ error' = "InvalidArgument: Case weights must have the same length as number of rows in data."
               /\ end_pos' = push_back_empty_node(end_pos)
               /\ UNCHANGED drawVars
          ELSE \E r \in drawn :
               /\ sample_keys' = r.sample_keys
               /\ oob_keys' = r.oob_keys
               /\ read_past_bucket' = r.read_past_bucket
               /\ end_pos' = [i \in {0} |-> Size(r.sample_keys)]
               /\ pc' = IF r.read_past_bucket THEN "undefined" ELSE "loop"
               /\ error' = ""
    /\ depth' = 0
    /\ last_left_node_key' = 0
    /\ n_open_node' = 1
    /\ node_key' = 0
    /\ UNCHANGED argVars

(* the call of grow on a tree of its own, with any sample the generator    *)
(* can give                                                                 *)
GrowStart == grow_to_loop(resample) /\ UNCHANGED <<forestVars, auxVars>>

(* one iteration of the node loop (TreeBase.defn.h:156-167), split_node    *)
(* having one of the outcomes `split`; when the last open node is closed   *)
(* grow returns oob_keys                                                    *)
grow_node(split) ==
    /\ pc = "loop"
    /\ n_open_node # 0
    /\ \E r \in split :
            IF r.thrown
            THEN /\ pc' = "threw"
                 /\ error' = "RuntimeError: Cannot split a node that is already at maximum depth of tree."
                 /\ UNCHANGED <<nodeVars, leaf_keys, sample_keys, loopVars>>
            ELSE /\ split_keys' = r.split_keys
                 /\ split_values' = r.split_values
                 /\ left_children' = r.left_children
                 /\ right_children' = r.right_children
                 /\ start_pos' = r.start_pos
                 /\ end_pos' = r.end_pos
                 /\ leaf_keys' = r.leaf_keys
                 /\ sample_keys' = r.sample_keys
                 /\ n_open_node' = IF r.did_split THEN n_open_node + 1
                                   ELSE n_open_node - 1
                 /\ IF r.did_split /\ node_key >= last_left_node_key
                    THEN /\ last_left_node_key' = Size(r.split_keys) - 2
                         /\ depth' = depth + 1
                    ELSE UNCHANGED <<last_left_node_key, depth>>
                 /\ node_key' = node_key + 1
                 /\ pc' = IF n_open_node' = 0 THEN "done" ELSE "loop"
                 /\ error' = ""
    /\ UNCHANGED <<argVars, response_weights, oob_keys, read_past_bucket>>

(* an iteration with any candidate keys the generator can give *)
GrowStep ==
    /\ grow_node(split_node(node_key, depth, last_left_node_key))
    /\ UNCHANGED <<forestVars, auxVars>>

(***************************************************************************)
(* Growth of one classification tree on every input of InitGrow.           *)
(***************************************************************************)
TreeVarsEmpty ==
    /\ split_keys = EmptyVec
    /\ split_values = EmptyVec
    /\ left_children = EmptyVec
    /\ right_children = EmptyVec
    /\ start_pos = EmptyVec
    /\ end_pos = EmptyVec
    /\ leaf_keys = EmptyVec
    /\ response_weights = EmptyVec
    /\ sample_keys = EmptyVec
    /\ oob_keys = EmptyVec
    /\ read_past_bucket = FALSE
    /\ depth = 0
    /\ last_left_node_key = 0
    /\ n_open_node = 0
    /\ node_key = 0
    /\ error = ""

EmptyTree ==
    /\ pc = "start"
    /\ TreeVarsEmpty

(* no tree is being grown *)
NoTree ==
    /\ parameters = << >>
    /\ data = << >>
    /\ case_weights = EmptyVec
    /\ compute_oob_error = FALSE
    /\ is_ordered = EmptyVec
    /\ pc = "idle"
    /\ TreeVarsEmpty

(* no serialization, merge or second training run is under way *)
NoIO ==
    /\ io_object = << >>
    /\ io_archive = << >>
    /\ io_result = << >>
    /\ io_pc = "idle"

NoRun ==
    /\ plant_seed = 0
    /\ plant_n_thread = 0
    /\ plant_run = 0
    /\ forest_gen = 0
    /\ plant_trees = EmptyVec
    /\ next_tree = EmptyVec
    /\ plant_pc = "idle"
    /\ first_trees = << >>

NoMerge ==
    /\ merge_args = << >>
    /\ merge_result = << >>
    /\ merge_error = ""
    /\ merge_pc = "idle"

NoCall == key_map_arg = << >>

NoPredict ==
    /\ prediction_keys_by_tree = EmptyVec
    /\ aggregate_predictions = EmptyVec
    /\ predicted_trees = {}
    /\ predict_pc = "idle"

(* no candidate draw is being looked at on its own *)
NoCandidate == drawn_keys = << >> /\ candidate_pc = "idle"

(* no worker and no progress loop is running *)
NoWork ==
    /\ work_kind = ""
    /\ mutex = -1
    /\ event_count = 0
    /\ interrupted = FALSE
    /\ user_interrupt = FALSE
    /\ progress_pc = "idle"
    /\ worker_pc = << >>
    /\ work_item = << >>
    /\ worker_predictions = << >>
    /\ predictions_to_bag = << >>
    /\ prediction_nodes = << >>

NoAux ==
    NoIO /\ NoRun /\ NoMerge /\ NoCall /\ NoPredict /\ NoCandidate /\ NoWork

(* no forest is being planted: grow is called on a single tree *)
NoForest ==
    /\ forest_save_memory = FALSE
    /\ forest_parameters = EmptyVec
    /\ trees = EmptyVec
    /\ oob_keys_by_tree = EmptyVec
    /\ oob_predictions = EmptyVec
    /\ tree_key = 0
    /\ forest_pc = "idle"
    /\ oob_error = [num |-> 0, den |-> 1]

(* draw_always_predictor_keys: every predictor from key `first` on *)
AlwaysFrom(first) == [i \in 0 .. NPredictor - 1 - first |-> i + first]

GrowParameters ==
    [replace : {FALSE}, sample_fraction : {Vec(<<4>>)},
     n_try : {1}, draw_always_predictor_keys : {AlwaysFrom(1), AlwaysFrom(2)},
     draw_predictor_weights : {EmptyVec}, response_weights : {EmptyVec},
     split_rule : {"LOGRANK"}, min_metric_decrease : {0},
     max_depth : 0 .. MaxDepthBound,
     min_split_n_sample : {1, 2}, min_leaf_n_sample : {1}]

InitGrow ==
    /\ parameters \in GrowParameters
    /\ data \in {MakeData(x, y, Size(parameters.sample_fraction) > 1, FALSE)
                : x \in XSet, y \in {YAlt, YConst}}
    /\ case_weights = EmptyVec
    /\ compute_oob_error = TRUE
    /\ is_ordered = AllOrdered
    /\ EmptyTree
    /\ NoForest
    /\ NoAux

NextGrow == GrowStart \/ GrowStep

SpecGrow == InitGrow /\ [][NextGrow]_vars

(***************************************************************************)
(* Depth of the nodes of the grown tree.                                   *)
(***************************************************************************)
Nodes == DOMAIN split_keys
IsLeaf(i) == left_children[i] = 0
ParentOf(i) ==
    CHOOSE p \in Nodes : left_children[p] = i \/ right_children[p] = i
RECURSIVE NodeDepth(_)
NodeDepth(i) == IF i = 0 THEN 0 ELSE 1 + NodeDepth(ParentOf(i))

MaxDepthError ==
    "RuntimeError: Cannot split a node that is already at maximum depth of tree."

(* C1: for every max_depth and every data set grow never raises the        *)
(* RuntimeError "Cannot split a node that is already at maximum depth of   *)
(* tree".                                                                   *)
C1_NeverMaxDepthError == ~(pc = "threw" /\ error = MaxDepthError)

(* C2: with max_depth = m > 0, when grow returns normally every node of    *)
(* the tree lies at depth <= m, the root being at depth 0.                 *)
C2_DepthAtMostMax ==
    (pc = "done" /\ parameters.max_depth > 0)
        => \A i \in Nodes : NodeDepth(i) <= parameters.max_depth

(* grow returned normally with max_depth > 0 and a tree that was split     *)
(* down to depth max_depth                                                  *)
C2_Witness ==
    /\ pc = "done"
    /\ parameters.max_depth > 0
    /\ \E i \in Nodes : i # 0 /\ NodeDepth(i) = parameters.max_depth

(* C3: with max_depth = m > 0, a node at depth d < m that has more than    *)
(* min_split_n_sample samples, non-equal responses and a qualifying split  *)
(* is split: when grow returns, every leaf above depth m is small, pure or *)
(* without a qualifying split.                                              *)
C3_OnlyDepthMaxCut ==
    (pc = "done" /\ parameters.max_depth > 0)
        => \A i \in Nodes :
              (IsLeaf(i) /\ NodeDepth(i) < parameters.max_depth)
                  => \/ get_n_sample_node(i) <= parameters.min_split_n_sample
                     \/ pure(i)
                     \/ \E c \in draw_candidates :
                            ~push_best_split(i, c).split_found

(* the sample keys of the buffer sk at the positions from..to-1, as a bag *)
KeysInRange(sk, from, to) ==
    [k \in Rows |-> Cardinality({p \in from .. to - 1 : sk[p] = k})]

(* C13: a step of grow that splits node i on an ordered predictor j at     *)
(* threshold v leaves in the left child's range only sample keys with      *)
(* x[row, j] <= v and in the right child's range only sample keys with     *)
(* x[row, j] > v; the two ranges make up the parent's range, which holds   *)
(* the same sample keys, each as often, as before the split.               *)
C13_OrderedSplitPartitions ==
    [][ \A i \in DOMAIN left_children :
          (left_children[i] = 0 /\ left_children'[i] # 0
              /\ is_ordered[split_keys'[i]]) =>
            LET l == left_children'[i]
                r == right_children'[i]
                j == split_keys'[i]
                v == split_values'[i]
            IN  /\ \A p \in start_pos'[l] .. end_pos'[l] - 1 :
                       get_x(data, sample_keys'[p], j) <= v
                /\ \A p \in start_pos'[r] .. end_pos'[r] - 1 :
                       get_x(data, sample_keys'[p], j) > v
                /\ start_pos'[l] = start_pos[i]
                /\ end_pos'[l] = start_pos'[r]
                /\ end_pos'[r] = end_pos[i]
                /\ KeysInRange(sample_keys', start_pos[i], end_pos[i])
                       = KeysInRange(sample_keys, start_pos[i], end_pos[i]) ]_vars

(* a split whose partition moved sample keys: the left child's keys do not *)
(* all come before the right child's in row order                           *)
C13_Witness ==
    \E i \in DOMAIN left_children :
        /\ left_children[i] # 0
        /\ is_ordered[split_keys[i]]
        /\ start_pos[left_children[i]] < end_pos[left_children[i]]
        /\ start_pos[right_children[i]] < end_pos[right_children[i]]
        /\ \E p \in start_pos[left_children[i]] .. end_pos[left_children[i]] - 1 :
               \E q \in start_pos[right_children[i]] .. end_pos[right_children[i]] - 1 :
                   sample_keys[p] > sample_keys[q]

(* C15: when grow has returned, every node is a leaf with both child keys  *)
(* 0 or an internal node with two different non-zero child keys; the       *)
(* children of a node have keys above the node's, and no node is the child *)
(* of two nodes.                                                            *)
C15_ChildKeysWellFormed ==
    pc = "done" =>
        /\ DOMAIN left_children = DOMAIN split_keys
        /\ DOMAIN right_children = DOMAIN split_keys
        /\ \A i \in DOMAIN split_keys :
               \/ left_children[i] = 0 /\ right_children[i] = 0
               \/ /\ left_children[i] # 0
                  /\ right_children[i] # 0
                  /\ left_children[i] # right_children[i]
                  /\ left_children[i] > i
                  /\ right_children[i] > i
                  /\ left_children[i] \in DOMAIN split_keys
                  /\ right_children[i] \in DOMAIN split_keys
        /\ \A c \in DOMAIN split_keys :
               Cardinality({i \in DOMAIN split_keys :
                               /\ left_children[i] # 0
                               /\ c \in {left_children[i], right_children[i]}})
                   <= 1

(* grow has returned a tree with more than one internal node *)
C15_Witness ==
    /\ pc = "done"
    /\ Cardinality({i \in DOMAIN left_children : left_children[i] # 0}) > 1

(* C19: a node that holds exactly min_split_n_sample in-bag samples, in a  *)
(* tree without depth cap and with responses that are not all equal, is    *)
(* taken to the candidate draw and the split search: it is made terminal   *)
(* only when the search finds no split.                                    *)
C19_MinSplitIsInclusive ==
    [][ (/\ pc = "loop"
         /\ n_open_node # 0
         /\ parameters.max_depth = 0
         /\ get_n_sample_node(node_key) = parameters.min_split_n_sample
         /\ ~pure(node_key)
         /\ node_key \in DOMAIN leaf_keys')
        => \E split_candidate_keys \in draw_candidates :
               ~push_best_split(node_key, split_candidate_keys).split_found
      ]_vars

(* C21: a step of the node loop on a node that holds at most               *)
(* min_split_n_sample samples, or whose in-bag responses are all equal,    *)
(* makes the node terminal: the response keys of its slice are recorded as *)
(* its leaf payload, no node is added and the sample buffer is not         *)
(* reordered; with an all-constant response the tree that grow returns is  *)
(* the root leaf.                                                           *)
C21_SmallOrPureNodeIsTerminal ==
    /\ [][ (/\ pc = "loop"
             /\ n_open_node # 0
             /\ \/ get_n_sample_node(node_key) <= parameters.min_split_n_sample
                \/ pure(node_key))
            => /\ pc' # "threw"
               /\ node_key \in DOMAIN leaf_keys'
               /\ leaf_keys'[node_key] =
                      [j \in 0 .. get_n_sample_node(node_key) - 1 |->
                          data.response_index[
                              sample_keys[start_pos[node_key] + j]]]
               /\ UNCHANGED <<split_keys, split_values, left_children,
                              right_children, start_pos, end_pos, sample_keys>>
          ]_vars
    /\ []((pc = "done" /\ Size(data.response_values) = 1)
              => Size(split_keys) = 1 /\ DOMAIN leaf_keys = {0})

(* C22: while grow runs and when it has returned, every node's range       *)
(* [start_pos, end_pos) lies in the sample-key buffer and the ranges of the *)
(* two children of a split node are adjacent and make up the parent's;     *)
(* when grow has returned the ranges of the leaves are pairwise disjoint   *)
(* and cover [0, n_inbag), each leaf's payload has the size of its range,  *)
(* and the payload sizes sum to the number of in-bag samples.              *)
C22_SlicesTileTheBuffer ==
    LET nodes == DOMAIN split_keys
        leaves == {i \in nodes : left_children[i] = 0}
        slice(i) == start_pos[i] .. end_pos[i] - 1
    IN  /\ pc \in {"loop", "done"} =>
              \A i \in nodes :
                  /\ start_pos[i] <= end_pos[i]
                  /\ end_pos[i] <= Size(sample_keys)
                  /\ left_children[i] # 0 =>
                        /\ start_pos[left_children[i]] = start_pos[i]
                        /\ end_pos[left_children[i]]
                              = start_pos[right_children[i]]
                        /\ end_pos[right_children[i]] = end_pos[i]
        /\ pc = "done" =>
              /\ \A i \in leaves : \A k \in leaves :
                     i # k => slice(i) \cap slice(k) = {}
              /\ UNION {slice(i) : i \in leaves} = 0 .. Size(sample_keys) - 1
              /\ DOMAIN leaf_keys = leaves
              /\ \A i \in leaves :
                     Size(leaf_keys[i]) = end_pos[i] - start_pos[i]
              /\ Sum([i \in nodes |->
                         IF i \in leaves THEN Size(leaf_keys[i]) ELSE 0])
                     = Size(sample_keys)

(* grow has returned a tree with at least three leaves, none of them empty *)
C22_Witness ==
    /\ pc = "done"
    /\ Cardinality({i \in DOMAIN split_keys : left_children[i] = 0}) >= 3
    /\ \A i \in DOMAIN split_keys :
           left_children[i] = 0 => start_pos[i] < end_pos[i]

(* the thread that called grow takes its next step while the call has      *)
(* neither returned nor thrown: the entry of grow leaves pc = "start" and   *)
(* an iteration of the node loop increments node_key or throws              *)
GrowRuns ==
    /\ pc \in {"start", "loop"}
    /\ pc' \in {"loop", "done", "threw", "undefined"}
    /\ node_key' \in {0, node_key + 1}

(* grow is scheduled until it returns or throws *)
SpecGrowFair == SpecGrow /\ WF_<<pc, node_key>>(GrowRuns)

(* C28: grow ends; each step of the node loop that does not throw moves to *)
(* the next node key; while the loop runs the nodes below node_key are the *)
(* visited ones, each split or recorded as a leaf, the others are neither, *)
(* and n_open_node is the number of nodes not yet visited; when grow has   *)
(* returned n_open_node is 0, every node was visited, the node count is    *)
(* twice the number of split nodes plus one, and every node is either      *)
(* split or has a leaf payload.                                            *)
C28_GrowTerminates ==
    /\ <>(pc \in {"done", "threw"})
    /\ [][(pc = "loop" /\ pc' # "threw") => node_key' = node_key + 1]_vars
    /\ [](pc = "loop" =>
             /\ n_open_node # 0
             /\ split_node(node_key, depth, last_left_node_key) # {})
    /\ [](pc \in {"loop", "done"} =>
             /\ n_open_node = Size(split_keys) - node_key
             /\ \A i \in DOMAIN split_keys :
                    /\ i < node_key =>
                          (left_children[i] # 0) # (i \in DOMAIN leaf_keys)
                    /\ i >= node_key =>
                          left_children[i] = 0 /\ i \notin DOMAIN leaf_keys)
    /\ [](pc = "done" =>
             /\ n_open_node = 0
             /\ node_key = Size(split_keys)
             /\ Size(split_keys)
                   = 2 * Cardinality({i \in DOMAIN split_keys :
                                         left_children[i] # 0}) + 1)

(* grow has returned a tree of at least five nodes *)
C28_Witness ==
    /\ pc = "done"
    /\ n_open_node = 0
    /\ Size(split_keys) >= 5
    /\ node_key = Size(split_keys)

(***************************************************************************)
(* Growth on unordered predictors: rows carry factor levels 1..MaxLevel.   *)
(***************************************************************************)
MaxLevel == 3

XLevels == [r \in Rows |-> [c \in Preds |-> 1 + ((r + c) % MaxLevel)]]
XPairs == [r \in Rows |-> [c \in Preds |-> 1 + ((r \div (c + 1)) % 2)]]

UnorderedParameters ==
    [replace : {FALSE}, sample_fraction : {Vec(<<4>>)},
     n_try : {1}, draw_always_predictor_keys : {AlwaysFrom(1), AlwaysFrom(2)},
     draw_predictor_weights : {EmptyVec}, response_weights : {EmptyVec},
     split_rule : {"LOGRANK"}, min_metric_decrease : {0},
     max_depth : {0}, min_split_n_sample : {1}, min_leaf_n_sample : {1, 2}]

InitUnordered ==
    /\ parameters \in UnorderedParameters
    /\ data \in {MakeData(x, y, Size(parameters.sample_fraction) > 1, FALSE)
                : x \in {XLevels, XPairs}, y \in {YAlt, YHalf, YMod3}}
    /\ case_weights = EmptyVec
    /\ compute_oob_error = FALSE
    /\ is_ordered \in {[c \in Preds |-> FALSE], [c \in Preds |-> c # 0]}
    /\ EmptyTree
    /\ NoForest
    /\ NoAux

SpecUnordered == InitUnordered /\ [][NextGrow]_vars

(* C14: a step of grow that splits node i on an unordered predictor j with *)
(* mask m, the bits of split_value, leaves in the right child's range only *)
(* sample keys whose bit floor(x[row, j] - 1) is set in m and in the left  *)
(* child's range only sample keys whose bit is clear; the two ranges make  *)
(* up the parent's range with the same sample keys as before.              *)
C14_UnorderedSplitPartitions ==
    [][ \A i \in DOMAIN left_children :
          (left_children[i] = 0 /\ left_children'[i] # 0
              /\ ~is_ordered[split_keys'[i]]) =>
            LET l == left_children'[i]
                r == right_children'[i]
                j == split_keys'[i]
                m == split_values'[i]
            IN  /\ \A p \in start_pos'[r] .. end_pos'[r] - 1 :
                       (m \div (2 ^ (get_x(data, sample_keys'[p], j) - 1))) % 2 = 1
                /\ \A p \in start_pos'[l] .. end_pos'[l] - 1 :
                       (m \div (2 ^ (get_x(data, sample_keys'[p], j) - 1))) % 2 = 0
                /\ start_pos'[l] = start_pos[i]
                /\ end_pos'[l] = start_pos'[r]
                /\ end_pos'[r] = end_pos[i]
                /\ KeysInRange(sample_keys', start_pos[i], end_pos[i])
                       = KeysInRange(sample_keys, start_pos[i], end_pos[i]) ]_vars

(* an unordered split that routed a level above 1 right and moved sample   *)
(* keys                                                                    *)
C14_Witness ==
    \E i \in DOMAIN left_children :
        /\ left_children[i] # 0
        /\ ~is_ordered[split_keys[i]]
        /\ split_values[i] > 1
        /\ \E p \in start_pos[left_children[i]] .. end_pos[left_children[i]] - 1 :
               \E q \in start_pos[right_children[i]] .. end_pos[right_children[i]] - 1 :
                   sample_keys[p] > sample_keys[q]

(***************************************************************************)
(* Split search of the regression tree (TreeRegression.defn.h): the sums   *)
(* of the responses take the place of the counts by response.              *)
(***************************************************************************)
(* TreeRegression::new_node_aggregates: node_sum (split rules other than    *)
(* MAXSTAT)                                                                 *)
regression_node_sum(node) ==
    Sum([k \in 0 .. get_n_sample_node(node) - 1 |->
            get_y(data, sample_keys[start_pos[node] + k])])

(* TreeRegression::prepare_candidate_loop_via_index: node_sum_by_candidate  *)
node_sum_by_candidate(split_key, node) ==
    [c \in 0 .. Size(data.unique[split_key]) - 1 |->
        Sum([k \in 0 .. get_n_sample_node(node) - 1 |->
                IF data.index[split_key][sample_keys[start_pos[node] + k]] = c
                THEN get_y(data, sample_keys[start_pos[node] + k]) ELSE 0])]

(* TreeRegression::evaluate_decrease<LOGRANK>:                              *)
(* sum_rhs * sum_rhs / n_rhs + sum_lhs * sum_lhs / n_lhs                    *)
regression_evaluate_decrease(n_lhs, n_rhs, sum_lhs, sum_rhs) ==
    DblAdd(DblDivInt(sum_rhs * sum_rhs, n_rhs),
           DblDivInt(sum_lhs * sum_lhs, n_lhs))

(* TreeRegression::best_decrease_by_real_value, the loop from candidate j   *)
(* on                                                                       *)
RECURSIVE regression_best_decrease_by_real_value(_, _, _, _, _, _, _)
regression_best_decrease_by_real_value(split_key, node, min_leaf_n_sample, j, n_lhs_in, sum_lhs_in, best) ==
    IF j >= Size(data.unique[split_key]) - 1 THEN best
    ELSE IF node_n_by_candidate(split_key, node)[j] = 0
    THEN regression_best_decrease_by_real_value(split_key, node,
             min_leaf_n_sample, j + 1, n_lhs_in, sum_lhs_in, best)
    ELSE
    LET n_lhs == n_lhs_in + node_n_by_candidate(split_key, node)[j]
        sum_lhs == sum_lhs_in + node_sum_by_candidate(split_key, node)[j]
        n_rhs == get_n_sample_node(node) - n_lhs
        sum_rhs == regression_node_sum(node) - sum_lhs
    IN  IF below_min_leaf(n_lhs, min_leaf_n_sample)
        THEN regression_best_decrease_by_real_value(split_key, node,
                 min_leaf_n_sample, j + 1, n_lhs, sum_lhs, best)
        ELSE IF below_min_leaf(n_rhs, min_leaf_n_sample) THEN best
        ELSE
        LET decrease == regression_evaluate_decrease(n_lhs, n_rhs,
                                                     sum_lhs, sum_rhs)
        IN  regression_best_decrease_by_real_value(split_key, node,
                min_leaf_n_sample, j + 1, n_lhs, sum_lhs,
                IF Greater(decrease, best.decrease)
                THEN [decrease |-> decrease, split_key |-> split_key,
                      value |-> data.unique[split_key][j]]
                ELSE best)

(* TreeRegression::best_decrease_by_partition, the loop from partition j on *)
RECURSIVE regression_best_decrease_by_partition(_, _, _, _, _, _)
regression_best_decrease_by_partition(split_key, node, n_partition, min_leaf_n_sample, j, best) ==
    IF j >= n_partition THEN best
    ELSE
    LET partition_key ==
            to_partition_key(candidate_values(split_key, node), j)
        lhs_pos == {k \in NodePositions(node) :
                       ~test(partition_key, level_bit(sample_keys[k], split_key))}
        n_lhs == Cardinality(lhs_pos)
        sum_lhs == Sum([k \in 0 .. get_n_sample_node(node) - 1 |->
                          IF start_pos[node] + k \in lhs_pos
                          THEN get_y(data, sample_keys[start_pos[node] + k])
                          ELSE 0])
        n_rhs == get_n_sample_node(node) - n_lhs
        sum_rhs == regression_node_sum(node) - sum_lhs
    IN  IF \/ below_min_leaf(n_lhs, min_leaf_n_sample)
           \/ below_min_leaf(n_rhs, min_leaf_n_sample)
        THEN regression_best_decrease_by_partition(split_key, node,
                 n_partition, min_leaf_n_sample, j + 1, best)
        ELSE
        LET decrease == regression_evaluate_decrease(n_lhs, n_rhs,
                                                     sum_lhs, sum_rhs)
        IN  regression_best_decrease_by_partition(split_key, node,
                n_partition, min_leaf_n_sample, j + 1,
                IF Greater(decrease, best.decrease)
                THEN [decrease |-> decrease, split_key |-> split_key,
                      value |-> partition_key]
                ELSE best)

(* C23: a step of grow that splits a node leaves at least                  *)
(* min_leaf_n_sample sample keys in the range of each child; for every     *)
(* ordered predictor the search of the classification tree over its values *)
(* at the node being visited returns a best-scoring candidate among all    *)
(* those that put at least min_leaf_n_sample samples on each side (none if *)
(* there is no such candidate), so the break on the right-hand count skips *)
(* no such candidate; and at the same node the two searches of the         *)
(* regression tree return a candidate with at least min_leaf_n_sample      *)
(* samples on each side, the search by value one whenever there is one.    *)
C23_BothSidesHoldMinLeaf ==
    /\ [][ \A i \in DOMAIN left_children :
              (left_children[i] = 0 /\ left_children'[i] # 0) =>
                /\ end_pos'[left_children'[i]] - start_pos'[left_children'[i]]
                      >= parameters.min_leaf_n_sample
                /\ end_pos'[right_children'[i]] - start_pos'[right_children'[i]]
                      >= parameters.min_leaf_n_sample ]_vars
    /\ []((pc = "loop" /\ n_open_node # 0) =>
          \A p \in Preds : is_ordered[p] =>
            LET min_leaf == parameters.min_leaf_n_sample
                n == get_n_sample_node(node_key)
                zero == [k \in 0 .. Size(response_weights) - 1 |-> 0]
                init == [decrease |-> NegInfinity, split_key |-> 0, value |-> 0]
                res == best_decrease_by_real_value(p, node_key, min_leaf,
                                                   0, 0, zero, init)
                lhs_pos(j) == {k \in NodePositions(node_key) :
                                  data.index[p][sample_keys[k]] <= j}
                n_lhs(j) == Cardinality(lhs_pos(j))
                lhs(j) == [r \in 0 .. Size(response_weights) - 1 |->
                              Cardinality({k \in lhs_pos(j) :
                                  data.response_index[sample_keys[k]] = r})]
                dec(j) == evaluate_decrease(new_node_aggregates(node_key),
                                            lhs(j), n_lhs(j), n - n_lhs(j))
                Eligible == {j \in 0 .. Size(data.unique[p]) - 2 :
                                /\ node_n_by_candidate(p, node_key)[j] # 0
                                /\ n_lhs(j) >= min_leaf
                                /\ n - n_lhs(j) >= min_leaf}
            IN  IF Eligible = {} THEN res = init
                ELSE \E j \in Eligible :
                        /\ res.split_key = p
                        /\ res.value = data.unique[p][j]
                        /\ res.decrease = dec(j)
                        /\ \A k \in Eligible : ~Greater(dec(k), dec(j)))
    /\ []((pc = "loop" /\ n_open_node # 0) =>
          \A p \in Preds :
            LET min_leaf == parameters.min_leaf_n_sample
                n == get_n_sample_node(node_key)
                init == [decrease |-> NegInfinity, split_key |-> 0, value |-> 0]
                n_le(j) == Cardinality({k \in NodePositions(node_key) :
                               data.index[p][sample_keys[k]] <= j})
                Eligible == {j \in 0 .. Size(data.unique[p]) - 2 :
                                /\ node_n_by_candidate(p, node_key)[j] # 0
                                /\ n_le(j) >= min_leaf
                                /\ n - n_le(j) >= min_leaf}
                by_value == regression_best_decrease_by_real_value(
                                p, node_key, min_leaf, 0, 0, 0, init)
                by_partition == regression_best_decrease_by_partition(
                                p, node_key,
                                2 ^ (Size(candidate_values(p, node_key)) - 1),
                                min_leaf, 1, init)
                n_clear == Cardinality({k \in NodePositions(node_key) :
                               ~test(by_partition.value,
                                     level_bit(sample_keys[k], p))})
            IN  /\ IF Eligible = {} THEN by_value = init
                   ELSE \E j \in Eligible :
                           by_value.value = data.unique[p][j]
                /\ by_partition # init =>
                       n_clear >= min_leaf /\ n - n_clear >= min_leaf)

(* with min_leaf_n_sample = 2 the root was split although a value of the   *)
(* split predictor is held by one in-bag sample only, which no candidate   *)
(* may put alone on one side                                                *)
C23_Witness ==
    /\ parameters.min_leaf_n_sample = 2
    /\ Size(split_keys) >= 3
    /\ left_children[0] # 0
    /\ \E v \in 1 .. MaxLevel :
           Cardinality({k \in 0 .. Size(sample_keys) - 1 :
               get_x(data, sample_keys[k], split_keys[0]) = v}) = 1

(***************************************************************************)
(* Resampling inside grow: every strategy, on trees whose root is closed   *)
(* at once (min_split_n_sample = NRow).                                    *)
(***************************************************************************)
ResampleParameters ==
    [replace : BOOLEAN,
     sample_fraction : {Vec(<<3>>), Vec(<<2, 2>>), Vec(<<1, 0>>),
                        Vec(<<4, 0>>), Vec(<<1, 3>>)},
     n_try : {1}, draw_always_predictor_keys : {AlwaysFrom(1)},
     draw_predictor_weights : {EmptyVec}, response_weights : {EmptyVec},
     split_rule : {"LOGRANK"}, min_metric_decrease : {0},
     max_depth : {0},
     min_split_n_sample : {NRow}, min_leaf_n_sample : {1}]

ResampleWeights ==
    { EmptyVec,
      [r \in Rows |-> 1],
      [r \in Rows |-> IF r = 0 THEN 0 ELSE 2],
      [r \in 0 .. NRow - 2 |-> 1] }

InitResample ==
    /\ parameters \in ResampleParameters
    /\ data \in {MakeData(XBits, y, Size(parameters.sample_fraction) > 1, FALSE)
                : y \in {YAlt, YMod3, YConst}}
    /\ case_weights \in ResampleWeights
    /\ compute_oob_error \in BOOLEAN
    /\ is_ordered = AllOrdered
    /\ EmptyTree
    /\ NoForest
    /\ NoAux

SpecResample == InitResample /\ [][NextGrow]_vars

(* C4: for each resampling strategy, when OOB keys are requested grow      *)
(* returns exactly the rows of [0, n_row) that do not occur in the tree's  *)
(* in-bag sample_keys.                                                      *)
C4_OobIsComplementOfInbag ==
    (pc = "done" /\ compute_oob_error)
        => /\ Values(oob_keys) \cap Values(sample_keys) = {}
           /\ Values(oob_keys) \cup Values(sample_keys) = 0 .. data.n_row - 1

(* C5: response-wise resampling without replacement never reads beyond a   *)
(* class bucket.                                                            *)
C5_NeverReadsPastBucket ==
    (response_wise /\ ~parameters.replace) => ~read_past_bucket

(* C17: grow called with non-empty case weights and a sample_fraction of   *)
(* more than one entry fails with InvalidArgument and has drawn no in-bag  *)
(* and no out-of-bag key.                                                   *)
C17_WeightedAndResponseWiseRejected ==
    (/\ pc # "start"
     /\ Size(case_weights) # 0
     /\ Size(parameters.sample_fraction) > 1)
        => /\ pc = "threw"
           /\ error = "InvalidArgument: Cannot have both weighted and response-wise (class-wise) weighting."
           /\ sample_keys = EmptyVec
           /\ oob_keys = EmptyVec

(* grow has refused case weights of the right length together with two     *)
(* sample fractions                                                         *)
C17_Witness ==
    /\ pc = "threw"
    /\ Size(case_weights) = data.n_row
    /\ Size(parameters.sample_fraction) = 2
    /\ Size(split_keys) = 1

(* C29: when grow, called on an empty tree, has thrown one of its argument *)
(* errors (any error but the depth guard of split_node), the node arrays   *)
(* of the tree are as before the call, that is empty.                      *)
C29_FailedGrowLeavesTreeEmpty ==
    (/\ pc = "threw"
     /\ error # "RuntimeError: Cannot split a node that is already at maximum depth of tree.")
        => /\ split_keys = EmptyVec
           /\ split_values = EmptyVec
           /\ left_children = EmptyVec
           /\ right_children = EmptyVec
           /\ start_pos = EmptyVec
           /\ end_pos = EmptyVec

(***************************************************************************)
(* Forest::plant of a classification forest on one worker: the trees are   *)
(* grown one after the other, then the OOB pass runs over them and the OOB *)
(* error is computed (ForestClassification.defn.h:143-209).                *)
(***************************************************************************)
(* Tree::predict down to a leaf, ordered splits *)
RECURSIVE PredictLeaf(_, _, _)
PredictLeaf(t, node, row) ==
    IF t.left_children[node] = 0 THEN node
    ELSE IF get_x(data, row, t.split_keys[node]) <= t.split_values[node]
    THEN PredictLeaf(t, t.left_children[node], row)
    ELSE PredictLeaf(t, t.right_children[node], row)

(* most_frequent_value: the keys it can return, ties being drawn at random *)
most_frequent_value(counts) ==
    {k \in DOMAIN counts : \A l \in DOMAIN counts : counts[l] <= counts[k]}

(* the count map of predict_from_inbag<BAGGED>                              *)
(* (TreeClassification.defn.h:117-120)                                      *)
LeafCounts(t, node) ==
    [k \in Values(t.leaf_keys[node]) |->
        Count(t.leaf_keys[node], k) * t.response_weights[k]]

(* the count map of compute_oob_error for one row                           *)
(* (ForestClassification.defn.h:157-160)                                    *)
PredictionCounts(predictions, sample_key) ==
    [k \in Values(predictions[sample_key]) |->
        Count(predictions[sample_key], k)]

(* the tree variables of the next tree to grow, or of none *)
NextTree(next_pc) ==
    /\ split_keys' = EmptyVec
    /\ split_values' = EmptyVec
    /\ left_children' = EmptyVec
    /\ right_children' = EmptyVec
    /\ start_pos' = EmptyVec
    /\ end_pos' = EmptyVec
    /\ leaf_keys' = EmptyVec
    /\ response_weights' = EmptyVec
    /\ sample_keys' = EmptyVec
    /\ oob_keys' = EmptyVec
    /\ read_past_bucket' = FALSE
    /\ depth' = 0
    /\ last_left_node_key' = 0
    /\ n_open_node' = 0
    /\ node_key' = 0
    /\ pc' = next_pc
    /\ error' = ""

(* the worker stores the OOB keys grow returned and goes to the next tree;  *)
(* after the last tree new_oob_error prepares the accumulators              *)
FinishTree ==
    /\ forest_pc = "grow"
    /\ pc = "done"
    /\ trees' = PushBack(trees,
           [split_keys |-> split_keys, split_values |-> split_values,
            left_children |-> left_children,
            right_children |-> right_children,
            leaf_keys |-> leaf_keys, response_weights |-> response_weights,
            leaf_most_frequent |-> EmptyVec])
    /\ oob_keys_by_tree' = PushBack(oob_keys_by_tree, oob_keys)
    /\ IF Size(trees) + 1 < NTree
       THEN /\ NextTree("start")
            /\ UNCHANGED <<forest_pc, oob_predictions>>
       ELSE /\ NextTree("idle")
            /\ IF compute_oob_error
               THEN /\ forest_pc' = "oob"
                    /\ oob_predictions' =
                           [r \in 0 .. data.n_row - 1 |-> EmptyVec]
               ELSE /\ forest_pc' = "finalise"
                    /\ UNCHANGED oob_predictions
    /\ parameters' = IF Size(trees) + 1 < NTree
                      THEN forest_parameters[Size(trees) + 1]
                      ELSE parameters
    /\ UNCHANGED <<data, case_weights, compute_oob_error, is_ordered,
                   forest_save_memory, forest_parameters, tree_key, oob_error,
                   auxVars>>

(* ForestClassification::oob_one_tree for tree tree_key                     *)
(* (ForestClassification.defn.h:184-209), by the one worker of the plant:  *)
(* the predictions of the tree's OOB rows are made into oob_values without *)
(* the mutex, each prediction filling leaf_most_frequent of its leaf when  *)
(* that has no entry, and a leaf with no in-bag key adding no value; then  *)
(* the mutex is taken, the values are appended to oob_predictions and the  *)
(* mutex is released.  oob_values read past its end is undefined.          *)
oob_one_tree ==
    LET w == 1
        t == trees[tree_key]
        keys == oob_keys_by_tree[tree_key]
        leaf(j) == PredictLeaf(t, 0, keys[j])
        have_prediction(l) == l \in DOMAIN t.leaf_most_frequent
        predicted == {j \in DOMAIN keys :
                         \/ have_prediction(leaf(j))
                         \/ Size(t.leaf_keys[leaf(j)]) # 0}
        uncached == {leaf(j) : j \in predicted} \ DOMAIN t.leaf_most_frequent
        nth(i) == The({j \in predicted :
                          Cardinality({k \in predicted : k < j}) = i})
        RECURSIVE emplace_back(_, _)
        emplace_back(predictions, j) ==
            IF j = Size(keys) THEN predictions
            ELSE emplace_back(
                     [predictions EXCEPT ![keys[j]] =
                         PushBack(predictions[keys[j]],
                                  worker_predictions[w][j])],
                     j + 1)
        compute ==
            /\ worker_pc[w] = "predict"
            /\ \E drawn \in [uncached -> 0 .. Size(t.response_weights) - 1] :
                /\ \A l \in uncached :
                       drawn[l] \in most_frequent_value(LeafCounts(t, l))
                /\ LET most_frequent ==
                           [l \in DOMAIN t.leaf_most_frequent \cup uncached |->
                               IF l \in uncached THEN drawn[l]
                               ELSE t.leaf_most_frequent[l]]
                   IN  /\ trees' = [trees EXCEPT
                              ![tree_key].leaf_most_frequent = most_frequent]
                       /\ worker_predictions' =
                              [worker_predictions EXCEPT ![w] =
                                  [i \in 0 .. Cardinality(predicted) - 1 |->
                                      most_frequent[leaf(nth(i))]]]
            /\ worker_pc' = [worker_pc EXCEPT ![w] = "lock_write"]
            /\ UNCHANGED <<mutex, oob_predictions, tree_key, forest_pc>>
        lock ==
            /\ worker_pc[w] = "lock_write"
            /\ mutex = -1
            /\ mutex' = w
            /\ worker_pc' = [worker_pc EXCEPT ![w] = "write"]
            /\ UNCHANGED <<worker_predictions, trees, oob_predictions,
                           tree_key, forest_pc>>
        write ==
            /\ worker_pc[w] = "write"
            /\ IF Size(worker_predictions[w]) < Size(keys)
               THEN /\ forest_pc' = "undefined"
                    /\ UNCHANGED oob_predictions
               ELSE /\ oob_predictions' = emplace_back(oob_predictions, 0)
                    /\ UNCHANGED forest_pc
            /\ worker_pc' = [worker_pc EXCEPT ![w] = "unlock_write"]
            /\ UNCHANGED <<worker_predictions, mutex, trees, tree_key>>
        unlock ==
            /\ worker_pc[w] = "unlock_write"
            /\ mutex' = -1
            /\ worker_pc' = [worker_pc EXCEPT ![w] = "predict"]
            /\ worker_predictions' = [worker_predictions EXCEPT ![w] = EmptyVec]
            /\ tree_key' = tree_key + 1
            /\ forest_pc' = IF tree_key + 1 = Size(trees) THEN "error"
                            ELSE "oob"
            /\ UNCHANGED <<trees, oob_predictions>>
    IN  /\ forest_pc = "oob"
        /\ tree_key < Size(trees)
        /\ compute \/ lock \/ write \/ unlock
        /\ UNCHANGED <<growVars, forest_save_memory, forest_parameters,
                       oob_keys_by_tree, oob_error, ioVars, runVars,
                       mergeVars, callVars, candidateVars, predictVars,
                       work_kind, event_count, interrupted, user_interrupt,
                       progress_pc, work_item, predictions_to_bag,
                       prediction_nodes>>

(* ForestClassification::compute_oob_error and finalise_oob_error           *)
(* (ForestClassification.defn.h:150-181); the quotient of the two counts is *)
(* kept as [num, den], 0/0 being the NaN the division returns               *)
compute_oob_error_step ==
    /\ forest_pc = "error"
    /\ LET counted == {r \in DOMAIN oob_predictions :
                          Size(oob_predictions[r]) # 0}
       IN  \E predicted \in [counted -> 0 .. Size(data.response_values) - 1] :
           /\ \A r \in counted :
                  predicted[r] \in
                      most_frequent_value(PredictionCounts(oob_predictions, r))
           /\ oob_error' =
                  [num |-> Cardinality({r \in counted :
                               predicted[r] # data.response_index[r]}),
                   den |-> Cardinality(counted)]
    /\ oob_predictions' = EmptyVec
    /\ forest_pc' = "finalise"
    /\ UNCHANGED <<growVars, forest_save_memory, forest_parameters, trees,
                   oob_keys_by_tree, tree_key, auxVars>>

(* ForestClassification::finalise_growth                                    *)
(* (ForestClassification.defn.h:134-140): the response index and the       *)
(* buckets by response are released once the trees are grown and the OOB   *)
(* error, which reads the response index, is computed                      *)
finalise_growth ==
    /\ forest_pc = "finalise"
    /\ data' = [data EXCEPT !.sample_keys_by_response = EmptyVec,
                            !.response_index = EmptyVec]
    /\ forest_pc' = "done"
    /\ UNCHANGED <<parameters, case_weights, compute_oob_error, is_ordered,
                   split_keys, split_values, left_children, right_children,
                   start_pos, end_pos, leaf_keys, response_weights,
                   sample_keys, oob_keys, depth, last_left_node_key,
                   n_open_node, node_key, read_past_bucket, pc, error,
                   forest_save_memory, forest_parameters, trees, oob_keys_by_tree,
                   oob_predictions, tree_key, oob_error, auxVars>>

PlantParameters ==
    { [replace |-> draw[1], sample_fraction |-> Vec(<<draw[2]>>),
       n_try |-> 1, draw_always_predictor_keys |-> AlwaysFrom(1),
       draw_predictor_weights |-> EmptyVec, response_weights |-> EmptyVec,
       split_rule |-> "LOGRANK", min_metric_decrease |-> 0,
       max_depth |-> 0, min_split_n_sample |-> 1, min_leaf_n_sample |-> 1]
      : draw \in {<<FALSE, 4>>, <<FALSE, 0>>, <<TRUE, 1>>, <<TRUE, 2>>} }

InitPlant ==
    /\ parameters \in PlantParameters
    /\ data \in {MakeData(XBits, YAlt, Size(parameters.sample_fraction) > 1, FALSE),
                MakeData(XRamp, YMod3, Size(parameters.sample_fraction) > 1, FALSE)}
    /\ case_weights = EmptyVec
    /\ compute_oob_error = TRUE
    /\ is_ordered = AllOrdered
    /\ EmptyTree
    /\ forest_save_memory = FALSE
    /\ forest_parameters = [t \in 0 .. NTree - 1 |-> parameters]
    /\ trees = EmptyVec
    /\ oob_keys_by_tree = EmptyVec
    /\ oob_predictions = EmptyVec
    /\ tree_key = 0
    /\ forest_pc = "grow"
    /\ oob_error = [num |-> 0, den |-> 1]
    /\ NoIO /\ NoRun /\ NoMerge /\ NoCall /\ NoPredict /\ NoCandidate
    /\ work_kind = "OOB"
    /\ mutex = -1
    /\ event_count = 0
    /\ interrupted = FALSE
    /\ user_interrupt = FALSE
    /\ progress_pc = "idle"
    /\ worker_pc = [w \in {1} |-> "predict"]
    /\ work_item = [w \in {1} |-> 0]
    /\ worker_predictions = [w \in {1} |-> EmptyVec]
    /\ predictions_to_bag = << >>
    /\ prediction_nodes = << >>

NextPlant ==
    \/ GrowStart
    \/ GrowStep
    \/ FinishTree
    \/ oob_one_tree
    \/ compute_oob_error_step
    \/ finalise_growth

SpecPlant == InitPlant /\ [][NextPlant]_vars

(* C6: after training a classification forest the OOB error equals (rows   *)
(* whose majority OOB prediction differs from the observed response key) / *)
(* (rows with at least one OOB prediction) and is a number in [0, 1], also *)
(* when no row is out-of-bag for any tree.                                  *)
C6_OobErrorIsFraction ==
    [][ (forest_pc = "error" /\ forest_pc' = "finalise") =>
        LET counted == {r \in DOMAIN oob_predictions :
                           Size(oob_predictions[r]) # 0}
            majority(r) ==
                most_frequent_value(PredictionCounts(oob_predictions, r))
            differs == {r \in counted : data.response_index[r] \notin majority(r)}
            may_differ == {r \in counted : majority(r) # {data.response_index[r]}}
        IN  /\ oob_error'.den # 0
            /\ oob_error'.den = Cardinality(counted)
            /\ Cardinality(differs) <= oob_error'.num
            /\ oob_error'.num <= Cardinality(may_differ)
            /\ oob_error'.num <= oob_error'.den ]_vars

(* C12: when the BAGGED prediction of a tree at a row's leaf yields no     *)
(* value (the leaf's in-bag list is empty), oob_one_tree records nothing   *)
(* for that row, neither fails nor reads past its buffer of predictions,   *)
(* and records for every other OOB row the prediction made for that row.   *)
C12_EmptyLeafSkipped ==
    [][ forest_pc = "oob" =>
        IF worker_pc[1] = "write"
        THEN /\ forest_pc' # "undefined"
             /\ \A r \in DOMAIN oob_predictions :
                    LET t == trees[tree_key]
                        l == PredictLeaf(t, 0, r)
                    IN  IF /\ r \in Values(oob_keys_by_tree[tree_key])
                           /\ Size(t.leaf_keys[l]) # 0
                        THEN /\ Size(oob_predictions'[r])
                                   = Size(oob_predictions[r]) + 1
                             /\ oob_predictions'[r][Size(oob_predictions[r])]
                                   \in most_frequent_value(LeafCounts(t, l))
                        ELSE oob_predictions'[r] = oob_predictions[r]
        ELSE oob_predictions' = oob_predictions ]_vars

(***************************************************************************)
(* Training from ForestClassification::new_growth on: the forest-level     *)
(* checks, then the trees, each grown with its own TrainingParameters.     *)
(***************************************************************************)
(* ForestClassification::new_growth: the exception it raises, "" when none *)
forest_new_growth_error_mut(parameters_by_tree, d) == ""
forest_new_growth_error(parameters_by_tree, d) ==
    LET any_hellinger == \E t \in DOMAIN parameters_by_tree :
                             parameters_by_tree[t].split_rule = "HELLINGER"
        n_response_value_data == Size(get_response_values(d.y))
    IN  IF any_hellinger /\ n_response_value_data # 2
        THEN "InvalidArgument: Hellinger metric only implemented for binary classification."
        ELSE ""

(* ForestClassification::new_growth: the response values, which the first  *)
(* call of Data::get_response_values stores in the view, the check of the  *)
(* HELLINGER rule, then the derived indexes; plant hands the first tree    *)
(* its parameters                                                           *)
forest_new_growth ==
    /\ forest_pc = "new_growth"
    /\ IF forest_new_growth_error(forest_parameters, data) # ""
       THEN /\ forest_pc' = "threw"
            /\ error' = forest_new_growth_error(forest_parameters, data)
            /\ data' = [data EXCEPT
                           !.response_values = get_response_values(data.y)]
            /\ UNCHANGED <<parameters, pc>>
       ELSE /\ forest_pc' = "grow"
            /\ data' = MakeData(data.x, data.y,
                           \E t \in DOMAIN forest_parameters :
                               Size(forest_parameters[t].sample_fraction) > 1,
                           forest_save_memory)
            /\ parameters' = forest_parameters[0]
            /\ pc' = "start"
            /\ error' = ""
    /\ UNCHANGED <<case_weights, compute_oob_error, is_ordered,
                   split_keys, split_values, left_children, right_children,
                   start_pos, end_pos, leaf_keys, response_weights,
                   sample_keys, oob_keys, depth, last_left_node_key,
                   n_open_node, node_key, read_past_bucket,
                   forest_save_memory, forest_parameters, trees, oob_keys_by_tree,
                   oob_predictions, tree_key, oob_error, auxVars>>

(* per-tree parameters under which the root of every tree is a leaf; the   *)
(* response weights, when given, fit a response of three values            *)
TrainParameters ==
    [replace : {FALSE}, sample_fraction : {Vec(<<4>>), Vec(<<2>>)},
     n_try : {1}, draw_always_predictor_keys : {AlwaysFrom(1)},
     draw_predictor_weights : {EmptyVec},
     response_weights : {EmptyVec, Vec(<<1, 2, 3>>)},
     split_rule : {"LOGRANK", "HELLINGER"}, min_metric_decrease : {0},
     max_depth : {0}, min_split_n_sample : {NRow}, min_leaf_n_sample : {1}]

InitTrain ==
    /\ parameters = << >>
    /\ data \in {NewData(XBits, y) : y \in {YAlt, YMod3, YConst}}
    /\ case_weights = EmptyVec
    /\ compute_oob_error = FALSE
    /\ is_ordered = AllOrdered
    /\ pc = "idle"
    /\ TreeVarsEmpty
    /\ forest_save_memory \in BOOLEAN
    /\ forest_parameters \in [0 .. NTree - 1 -> TrainParameters]
    /\ trees = EmptyVec
    /\ oob_keys_by_tree = EmptyVec
    /\ oob_predictions = EmptyVec
    /\ tree_key = 0
    /\ forest_pc = "new_growth"
    /\ oob_error = [num |-> 0, den |-> 1]
    /\ NoAux

NextTrain ==
    \/ forest_new_growth
    \/ GrowStart
    \/ GrowStep
    \/ FinishTree
    \/ finalise_growth

SpecTrain == InitTrain /\ [][NextTrain]_vars

(* some tree of the forest uses the HELLINGER rule and the response has a  *)
(* number of distinct values other than 2                                  *)
HellingerOnNonBinary ==
    /\ \E t \in DOMAIN forest_parameters :
           forest_parameters[t].split_rule = "HELLINGER"
    /\ Size(get_response_values(data.y)) # 2

(* C18: training a classification forest in which some tree uses the       *)
(* HELLINGER rule on a response with other than 2 distinct values fails    *)
(* with InvalidArgument in the forest-level check, before any tree is      *)
(* grown; the tree-level check never reports it.                           *)
C18_HellingerRejectedByForest ==
    /\ (HellingerOnNonBinary /\ forest_pc # "new_growth")
          => /\ forest_pc = "threw"
             /\ error = "InvalidArgument: Hellinger metric only implemented for binary classification."
             /\ trees = EmptyVec
             /\ split_keys = EmptyVec
             /\ pc = "idle"
    /\ error # "RuntimeError: Cannot use Hellinger metric on non-binary data."

(* the forest-level check refused a forest whose second tree alone uses    *)
(* HELLINGER, on a response of three values                                *)
C18_Witness ==
    /\ forest_pc = "threw"
    /\ forest_parameters[0].split_rule = "LOGRANK"
    /\ forest_parameters[NTree - 1].split_rule = "HELLINGER"
    /\ Size(data.response_values) = 3

(***************************************************************************)
(* cpp11_serialize and cpp11_deserialize (cpp11_io.cpp:57-203).  A double  *)
(* is kept as a whole number of halves (1 is 0.5); an R numeric is a       *)
(* double.  The archive is the stream of scalars cereal writes, each with  *)
(* the C++ type it was written as: "u8", "u64", "f64", "str".              *)
(***************************************************************************)
Token(tag, value) == [t |-> tag, v |-> value]

(* cereal's output of one scalar, of a std::vector and of the unordered     *)
(* maps of the trees (entries in ascending key order)                       *)
EncScalar(tag, value) == <<Token(tag, value)>>
EncVector(tag, vec) ==
    <<Token("u64", Size(vec))>>
        \o [i \in 1 .. Size(vec) |-> Token(tag, vec[i - 1])]
RECURSIVE EncMapEntries(_, _, _, _)
EncMapEntries(tag, m, keys, i) ==
    IF i = Size(keys) THEN << >>
    ELSE EncScalar("u64", keys[i]) \o EncVector(tag, m[keys[i]])
             \o EncMapEntries(tag, m, keys, i + 1)
EncMapOfVector(tag, m) ==
    EncScalar("u64", Size(m)) \o EncMapEntries(tag, m, SortedVec(DOMAIN m), 0)
EncMapOfScalar(tag, m) ==
    LET keys == SortedVec(DOMAIN m)
    IN  EncScalar("u64", Size(m))
            \o [i \in 1 .. 2 * Size(keys) |->
                   IF i % 2 = 1 THEN Token("u64", keys[(i - 1) \div 2])
                   ELSE Token(tag, m[keys[(i - 2) \div 2]])]

(* TreeBase::serialize (TreeBase.defn.h:203-207) *)
EncTreeBase(tr) ==
    EncScalar("u8", tr.save_memory) \o EncScalar("u64", tr.n_predictor)
        \o EncVector("u8", tr.is_ordered)
        \o EncVector("u64", tr.split_keys)
        \o EncVector("f64", tr.split_values)
        \o EncVector("u64", tr.left_children)
        \o EncVector("u64", tr.right_children)

(* a polymorphic tree pointer: the type name, then TreeClassification::     *)
(* serialize (TreeClassification.defn.h:152-156) or TreeRegression::        *)
(* serialize (TreeRegression.defn.h:133-136)                                *)
EncTree(tr) ==
    EncScalar("str", tr.type) \o EncTreeBase(tr)
        \o IF tr.type = "TreeClassification"
           THEN EncVector("f64", tr.response_weights)
                    \o EncMapOfVector("u64", tr.leaf_keys)
                    \o EncMapOfScalar("u64", tr.leaf_most_frequent)
           ELSE EncMapOfVector("f64", tr.leaf_values)
                    \o EncMapOfScalar("f64", tr.leaf_mean)

RECURSIVE EncTrees(_, _)
EncTrees(ts, i) ==
    IF i = Size(ts) THEN << >> ELSE EncTree(ts[i]) \o EncTrees(ts, i + 1)

(* a polymorphic forest pointer: the type name, ForestBase::serialize       *)
(* (ForestBase.defn.h:97-100), then the classification forest's             *)
(* response_values (ForestClassification.defn.h:68-71)                      *)
EncForest(f) ==
    EncScalar("str", f.type)
        \o EncScalar("u8", f.save_memory) \o EncScalar("u64", f.n_predictor)
        \o EncVector("u8", f.is_ordered)
        \o EncScalar("u64", Size(f.trees)) \o EncTrees(f.trees, 0)
        \o IF f.type = "ForestClassification"
           THEN EncVector("f64", f.response_values) ELSE << >>

(* cpp11::as_cpp<size_t> of an R numeric: "throw" unless the double is a   *)
(* whole number; the cast of a negative whole number to size_t is          *)
(* undefined                                                                *)
as_cpp_size_t(halves) ==
    IF halves % 2 # 0 THEN [kind |-> "throw", v |-> 0]
    ELSE IF halves < 0 THEN [kind |-> "undefined", v |-> 0]
    ELSE [kind |-> "value", v |-> halves \div 2]

(* the R numeric made of a size_t *)
as_sexp_size_t(n) == 2 * n

(* cereal's input.  A read of the stream yields [v, rest, ok]; ok is lost  *)
(* when the stream ends or holds a scalar of another type than the one     *)
(* read.  A field is <<kind, type>>: one scalar, a std::vector of scalars, *)
(* an unordered_map from size_t to vectors or to scalars.                  *)
Fail == [v |-> << >>, rest |-> << >>, ok |-> FALSE]
Scalar(tag) == <<"scalar", tag>>
Vector(tag) == <<"vector", tag>>
MapOfVector(tag) == <<"map", Vector(tag)>>
MapOfScalar(tag) == <<"map", Scalar(tag)>>

RECURSIVE DecField(_, _)
RECURSIVE DecMapEntries(_, _, _, _)
DecField(toks, field) ==
    IF Len(toks) = 0 THEN Fail
    ELSE IF field[1] = "scalar"
    THEN IF toks[1].t # field[2] THEN Fail
         ELSE [v |-> toks[1].v, rest |-> Tail(toks), ok |-> TRUE]
    ELSE IF toks[1].t # "u64" THEN Fail
    ELSE IF field[1] = "vector"
    THEN IF \/ Len(toks) - 1 < toks[1].v
            \/ \E i \in 2 .. toks[1].v + 1 : toks[i].t # field[2]
         THEN Fail
         ELSE [v |-> [i \in 0 .. toks[1].v - 1 |-> toks[i + 2].v],
               rest |-> SubSeq(toks, toks[1].v + 2, Len(toks)), ok |-> TRUE]
    ELSE DecMapEntries(Tail(toks), field[2], toks[1].v, EmptyVec)
DecMapEntries(toks, field, n, acc) ==
    IF n = 0 THEN [v |-> acc, rest |-> toks, ok |-> TRUE]
    ELSE The({ IF ~k.ok THEN Fail
               ELSE The({ IF ~x.ok THEN Fail
                          ELSE The({ DecMapEntries(x.rest, field, n - 1, m)
                                     : m \in {MapPut(acc, k.v, x.v)} })
                          : x \in {DecField(k.rest, field)} })
               : k \in {DecField(toks, Scalar("u64"))} })

(* the fields of a list, read one after the other *)
RECURSIVE DecFields(_, _, _, _)
DecFields(toks, fields, i, acc) ==
    IF i > Len(fields) THEN [v |-> acc, rest |-> toks, ok |-> TRUE]
    ELSE The({ IF ~x.ok THEN Fail
               ELSE The({ DecFields(x.rest, fields, i + 1, a)
                          : a \in {Append(acc, x.v)} })
               : x \in {DecField(toks, fields[i])} })

(* the reads of TreeBase's constructor arguments, after the type name of   *)
(* the polymorphic pointer, and those of the two tree types                 *)
(* (TreeClassification.defn.h:159-186, TreeRegression.defn.h:139-164)       *)
TreeBaseFields ==
    <<Scalar("str"), Scalar("u8"), Scalar("u64"), Vector("u8"),
      Vector("u64"), Vector("f64"), Vector("u64"), Vector("u64")>>
TreeClassificationFields ==
    <<Vector("f64"), MapOfVector("u64"), MapOfScalar("u64")>>
TreeRegressionFields == <<MapOfVector("f64"), MapOfScalar("f64")>>

DecTree(toks) ==
    The({ IF ~b.ok THEN Fail
          ELSE IF b.v[1] = "TreeClassification"
          THEN The({ IF ~d.ok THEN Fail
                     ELSE [v |-> [type |-> b.v[1], save_memory |-> b.v[2],
                                  n_predictor |-> b.v[3],
                                  is_ordered |-> b.v[4],
                                  split_keys |-> b.v[5],
                                  split_values |-> b.v[6],
                                  left_children |-> b.v[7],
                                  right_children |-> b.v[8],
                                  response_weights |-> d.v[1],
                                  leaf_keys |-> d.v[2],
                                  leaf_most_frequent |-> d.v[3]],
                           rest |-> d.rest, ok |-> TRUE]
                     : d \in {DecFields(b.rest, TreeClassificationFields,
                                        1, << >>)} })
          ELSE IF b.v[1] = "TreeRegression"
          THEN The({ IF ~d.ok THEN Fail
                     ELSE [v |-> [type |-> b.v[1], save_memory |-> b.v[2],
                                  n_predictor |-> b.v[3],
                                  is_ordered |-> b.v[4],
                                  split_keys |-> b.v[5],
                                  split_values |-> b.v[6],
                                  left_children |-> b.v[7],
                                  right_children |-> b.v[8],
                                  leaf_values |-> d.v[1],
                                  leaf_mean |-> d.v[2]],
                           rest |-> d.rest, ok |-> TRUE]
                     : d \in {DecFields(b.rest, TreeRegressionFields,
                                        1, << >>)} })
          ELSE Fail
          : b \in {DecFields(toks, TreeBaseFields, 1, << >>)} })

RECURSIVE DecTrees(_, _, _)
DecTrees(toks, n, acc) ==
    IF n = 0 THEN [v |-> acc, rest |-> toks, ok |-> TRUE]
    ELSE The({ IF ~tr.ok THEN Fail
               ELSE The({ DecTrees(tr.rest, n - 1, a)
                          : a \in {PushBack(acc, tr.v)} })
               : tr \in {DecTree(toks)} })

(* a polymorphic forest pointer: the type name, the reads of               *)
(* ForestClassification::load_and_construct                                 *)
(* (ForestClassification.defn.h:74-90); the regression forest reads the    *)
(* ForestBase fields only                                                   *)
ForestBaseFields ==
    <<Scalar("str"), Scalar("u8"), Scalar("u64"), Vector("u8"),
      Scalar("u64")>>

DecForest(toks) ==
    The({ IF ~b.ok THEN Fail
          ELSE The({
              IF ~ts.ok THEN Fail
              ELSE The({
                  IF ~rv.ok THEN Fail
                  ELSE [v |-> [type |-> b.v[1], save_memory |-> b.v[2],
                               n_predictor |-> b.v[3], is_ordered |-> b.v[4],
                               trees |-> ts.v, response_values |-> rv.v],
                        rest |-> rv.rest, ok |-> TRUE]
                  : rv \in {IF b.v[1] = "ForestClassification"
                            THEN DecField(ts.rest, Vector("f64"))
                            ELSE [v |-> EmptyVec, rest |-> ts.rest,
                                  ok |-> TRUE]} })
              : ts \in {DecTrees(b.rest, b.v[5], EmptyVec)} })
          : b \in {DecFields(toks, ForestBaseFields, 1, << >>)} })

(* the size_t values a conversion can give: the value, any value when the *)
(* cast is undefined, none when as_cpp throws                               *)
SizeOutcomes(halves) ==
    LET r == as_cpp_size_t(halves)
    IN  IF r.kind = "value" THEN {r.v}
        ELSE IF r.kind = "undefined" THEN 0 .. 3
        ELSE {}

SizeFields ==
    {"n_tree", "n_try", "max_depth", "min_metric_decrease",
     "min_split_n_sample", "min_leaf_n_sample", "seed"}
TreeTypeNames == {"classification", "regression"}
SplitRuleNames ==
    {"gini", "variance", "maxstat", "extratrees", "beta", "hellinger"}

(* cpp11_serialize (cpp11_io.cpp:57-130) *)
cpp11_serialize ==
    /\ io_pc = "ready"
    /\ LET o == io_object
           thrown ==
               \/ \E f \in SizeFields : as_cpp_size_t(o[f]).kind = "throw"
               \/ o.split_rule \notin SplitRuleNames
               \/ o.tree_type \notin TreeTypeNames
               \/ /\ o.split_rule = "extratrees"
                  /\ \/ o.n_random_split = << >>
                     \/ as_cpp_size_t(o.n_random_split[1]).kind = "throw"
               \/ o.tree_type = "classification" /\ o.response_values = << >>
       IN  IF thrown
           THEN /\ io_pc' = "threw"
                /\ UNCHANGED io_archive
           ELSE \E n_tree_v \in SizeOutcomes(o.n_tree),
                   n_try_v \in SizeOutcomes(o.n_try),
                   max_depth_v \in SizeOutcomes(o.max_depth),
                   min_metric_decrease_v \in SizeOutcomes(o.min_metric_decrease),
                   min_split_v \in SizeOutcomes(o.min_split_n_sample),
                   min_leaf_v \in SizeOutcomes(o.min_leaf_n_sample),
                   seed_v \in SizeOutcomes(o.seed),
                   n_random_split_v \in
                       IF o.split_rule = "extratrees"
                       THEN SizeOutcomes(o.n_random_split[1]) ELSE {0} :
                /\ io_archive' =
                       EncScalar("str", o.tree_type)
                       \o EncVector("str", o.predictor_names)
                       \o EncVector("str", o.names_of_unordered)
                       \o EncScalar("u64", n_tree_v)
                       \o EncScalar("u64", n_try_v)
                       \o EncScalar("str", o.split_rule)
                       \o EncScalar("u64", max_depth_v)
                       \o EncScalar("u64", min_metric_decrease_v)
                       \o EncScalar("u64", min_split_v)
                       \o EncScalar("u64", min_leaf_v)
                       \o EncScalar("u64", seed_v)
                       \o EncScalar("f64", o.oob_error)
                       \o EncScalar("u64", n_random_split_v)
                       \o (IF o.tree_type = "classification"
                           THEN EncScalar("ptr", 1)
                                    \o EncVector("f64", o.response_values[1])
                           ELSE EncScalar("ptr", 0))
                       \o EncForest(o.cpp11_ptr)
                /\ io_pc' = "serialized"
    /\ UNCHANGED <<io_object, io_result, growVars, forestVars, runVars,
                   mergeVars, callVars, workVars, candidateVars,
                   predictVars>>

(* the reads of cpp11_deserialize up to response_values                    *)
(* (cpp11_io.cpp:157-162)                                                   *)
EnvelopeFields ==
    <<Scalar("str"), Vector("str"), Vector("str"), Scalar("u64"),
      Scalar("u64"), Scalar("str"), Scalar("u64"), Scalar("u64"),
      Scalar("u64"), Scalar("u64"), Scalar("u64"), Scalar("f64"),
      Scalar("u64"), Scalar("ptr")>>

(* the archive as cpp11_deserialize reads it: the envelope fields, the     *)
(* response values behind a non-null pointer, the forest                    *)
DecEnvelope(toks) ==
    The({ IF ~e.ok THEN Fail
          ELSE The({
              IF ~rv.ok THEN Fail
              ELSE The({ IF ~f.ok THEN Fail
                         ELSE [v |-> [fields |-> e.v,
                                      response_values |-> rv.v,
                                      forest |-> f.v],
                               rest |-> f.rest, ok |-> TRUE]
                         : f \in {DecForest(rv.rest)} })
              : rv \in {IF e.v[14] = 1 THEN DecField(e.rest, Vector("f64"))
                        ELSE [v |-> EmptyVec, rest |-> e.rest, ok |-> TRUE]} })
          : e \in {DecFields(toks, EnvelopeFields, 1, << >>)} })

(* cpp11_deserialize (cpp11_io.cpp:133-203): the archive is read, the     *)
(* names of the tree type and the split rule are converted (168-169),     *)
(* which throws on a name that is none, and only then, for a              *)
(* classification forest, response_values is dereferenced (191-192)       *)
cpp11_deserialize ==
    /\ io_pc = "serialized"
    /\ \E r \in {DecEnvelope(io_archive)} :
           IF ~r.ok
           THEN /\ io_pc' = "undefined"
                /\ UNCHANGED io_result
           ELSE IF \/ r.v.fields[1] \notin TreeTypeNames
                   \/ r.v.fields[6] \notin SplitRuleNames
           THEN /\ io_pc' = "threw"
                /\ UNCHANGED io_result
           ELSE IF r.v.fields[1] = "classification" /\ r.v.fields[14] = 0
           THEN /\ io_pc' = "undefined"
                /\ UNCHANGED io_result
           ELSE /\ io_result' =
                       [predictor_names |-> r.v.fields[2],
                        names_of_unordered |-> r.v.fields[3],
                        tree_type |-> r.v.fields[1],
                        n_tree |-> as_sexp_size_t(r.v.fields[4]),
                        n_try |-> as_sexp_size_t(r.v.fields[5]),
                        split_rule |-> r.v.fields[6],
                        max_depth |-> as_sexp_size_t(r.v.fields[7]),
                        min_metric_decrease |-> as_sexp_size_t(r.v.fields[8]),
                        min_split_n_sample |-> as_sexp_size_t(r.v.fields[9]),
                        min_leaf_n_sample |-> as_sexp_size_t(r.v.fields[10]),
                        seed |-> as_sexp_size_t(r.v.fields[11]),
                        oob_error |-> r.v.fields[12],
                        n_random_split |->
                            IF r.v.fields[6] = "extratrees"
                            THEN <<as_sexp_size_t(r.v.fields[13])>>
                            ELSE << >>,
                        response_values |->
                            IF r.v.fields[1] = "classification"
                            THEN <<r.v.response_values>> ELSE << >>,
                        cpp11_ptr |-> r.v.forest]
                /\ io_pc' = "deserialized"
    /\ UNCHANGED <<io_object, io_archive, growVars, forestVars, runVars,
                   mergeVars, callVars, workVars, candidateVars,
                   predictVars>>

(***************************************************************************)
(* Round trips of trained forests: trees of the shapes grow leaves (a root *)
(* leaf, one split), the metadata cpp11_train and set_min_metric_decrease  *)
(* (cpp11_train.cpp:276-294) give for each split rule.                     *)
(***************************************************************************)
TreeShape(type, split) ==
    [type |-> type, save_memory |-> FALSE, n_predictor |-> NPredictor,
     is_ordered |-> AllOrdered,
     split_keys |-> IF split THEN Vec(<<1, 0, 0>>) ELSE Vec(<<0>>),
     split_values |-> IF split THEN Vec(<<3, 0, 0>>) ELSE Vec(<<0>>),
     left_children |-> IF split THEN Vec(<<1, 0, 0>>) ELSE Vec(<<0>>),
     right_children |-> IF split THEN Vec(<<2, 0, 0>>) ELSE Vec(<<0>>)]

ClassificationTree(split, most_frequent) ==
    [type |-> "TreeClassification", save_memory |-> FALSE,
     n_predictor |-> NPredictor, is_ordered |-> AllOrdered,
     split_keys |-> TreeShape("", split).split_keys,
     split_values |-> TreeShape("", split).split_values,
     left_children |-> TreeShape("", split).left_children,
     right_children |-> TreeShape("", split).right_children,
     response_weights |-> Vec(<<2, 2>>),
     leaf_keys |-> IF split THEN (1 :> Vec(<<0>>)) @@ (2 :> Vec(<<1, 1>>))
                   ELSE (0 :> Vec(<<0, 1, 1>>)),
     leaf_most_frequent |-> most_frequent]

RegressionTree(split, mean) ==
    [type |-> "TreeRegression", save_memory |-> FALSE,
     n_predictor |-> NPredictor, is_ordered |-> AllOrdered,
     split_keys |-> TreeShape("", split).split_keys,
     split_values |-> TreeShape("", split).split_values,
     left_children |-> TreeShape("", split).left_children,
     right_children |-> TreeShape("", split).right_children,
     leaf_values |-> IF split THEN (1 :> Vec(<<3>>)) @@ (2 :> Vec(<<5, 9>>))
                     ELSE (0 :> Vec(<<3, 5, 9>>)),
     leaf_mean |-> mean]

ClassificationTrees ==
    {ClassificationTree(FALSE, EmptyVec), ClassificationTree(FALSE, 0 :> 1),
     ClassificationTree(TRUE, EmptyVec)}
RegressionTrees ==
    {RegressionTree(FALSE, EmptyVec), RegressionTree(TRUE, 2 :> 7)}

TreeLists(S) == UNION {[0 .. n - 1 -> S] : n \in 1 .. NTree}

IOForest(type, ts, response_values) ==
    [type |-> type, save_memory |-> FALSE, n_predictor |-> NPredictor,
     is_ordered |-> AllOrdered, trees |-> ts,
     response_values |-> response_values]

(* the R list of a trained forest; rule is <<split_rule,                    *)
(* min_metric_decrease>>                                                    *)
IOObject(tree_type, rule, seed, oob, forest) ==
    [predictor_names |-> [c \in Preds |-> c],
     names_of_unordered |-> EmptyVec,
     tree_type |-> tree_type,
     n_tree |-> 2 * Size(forest.trees),
     n_try |-> 2,
     split_rule |-> rule[1],
     max_depth |-> 0,
     min_metric_decrease |-> rule[2],
     min_split_n_sample |-> 4,
     min_leaf_n_sample |-> 2,
     seed |-> 2 * seed,
     oob_error |-> oob,
     n_random_split |-> IF rule[1] = "extratrees" THEN <<2>> ELSE << >>,
     response_values |-> IF tree_type = "classification"
                         THEN <<forest.response_values>> ELSE << >>,
     cpp11_ptr |-> forest]

IOObjects ==
    { IOObject("classification", rule, seed, oob,
               IOForest("ForestClassification", ts, Vec(<<0, 2>>)))
      : rule \in {<<"gini", 0>>, <<"extratrees", 0>>},
        seed \in {1, 7}, oob \in {0, 1},
        ts \in TreeLists(ClassificationTrees) }
    \cup
    { IOObject("regression", rule, seed, oob,
               IOForest("ForestRegression", ts, EmptyVec))
      : rule \in {<<"variance", 0>>, <<"maxstat", -1>>, <<"maxstat", -2>>},
        seed \in {1, 7}, oob \in {0, 1},
        ts \in TreeLists(RegressionTrees) }

InitIO ==
    /\ NoTree
    /\ NoForest
    /\ NoCall
    /\ NoPredict
    /\ NoCandidate /\ NoWork
    /\ NoRun
    /\ NoMerge
    /\ io_object \in IOObjects
    /\ io_archive = << >>
    /\ io_result = << >>
    /\ io_pc = "ready"

NextIO == cpp11_serialize \/ cpp11_deserialize

SpecIO == InitIO /\ [][NextIO]_vars

(* C7: for every trained forest F, cpp11_deserialize(cpp11_serialize(F))   *)
(* reproduces F: the forest with every tree's arrays and leaf maps, and    *)
(* every metadata field of the envelope, min_metric_decrease included.     *)
C7_RoundTripReproduces ==
    /\ io_pc \notin {"threw", "undefined"}
    /\ io_pc = "deserialized" => io_result = io_object

(***************************************************************************)
(* Seeding and two trainings with the same arguments                       *)
(* (ForestBase::seed_gen, TreeBase::seed_gen, Forest::plant).              *)
(***************************************************************************)
(* std::mt19937_64 as a generator with PrngMod states: seeding fixes the   *)
(* state, a draw steps the state through all of them in turn and yields a  *)
(* number below PrngMod, each for one state, whose low bits are the slow   *)
(* high bits of the state.  PrngMod is no less than the number of samples  *)
(* and of candidate keys a draw chooses from, so that each of them is      *)
(* drawn from some state.                                                   *)
PrngMod == 256
Seeded(s) == s % PrngMod
Stepped(g) == (5 * g + 3) % PrngMod
Drawn(g) == (Stepped(g) \div 16) + 16 * (Stepped(g) % 16)

(* what a drawing function (draw_replace, draw_no_replace, std::shuffle)   *)
(* gives: of the outcomes S it can have, the one the number i it takes     *)
(* from the generator selects                                               *)
RECURSIVE DrawnOf(_, _)
DrawnOf(S, i) ==
    LET RECURSIVE Rest(_, _)
        Rest(T, n) == IF n = 0 THEN T ELSE Rest(T \ {The(T)}, n - 1)
        j == i % Cardinality(S)
    IN  IF j >= 16 THEN DrawnOf(Rest(S, 16), j - 16) ELSE The(Rest(S, j))

(* ForestBase::seed_gen (ForestBase.defn.h:87-94): the states the forest   *)
(* generator can be left in; seed 0 takes a std::random_device value       *)
forest_seed_gen_mut(s) == {Seeded(s), Seeded(s + 1)}
forest_seed_gen(s) == IF s = 0 THEN 0 .. PrngMod - 1 ELSE {Seeded(s)}

(* TreeBase::seed_gen (TreeBase.defn.h:98) *)
tree_seed_gen(s) == Seeded(s)

(* the members of the tree the tree variables describe; each tree of the   *)
(* forest is an object of its own with these members and its generator     *)
TreeState ==
    [pc |-> pc, error |-> error,
     split_keys |-> split_keys, split_values |-> split_values,
     left_children |-> left_children, right_children |-> right_children,
     start_pos |-> start_pos, end_pos |-> end_pos, leaf_keys |-> leaf_keys,
     response_weights |-> response_weights, sample_keys |-> sample_keys,
     oob_keys |-> oob_keys, read_past_bucket |-> read_past_bucket,
     depth |-> depth, last_left_node_key |-> last_left_node_key,
     n_open_node |-> n_open_node, node_key |-> node_key]

(* the tree variables become the members of the tree s *)
SetTree(s) ==
    /\ pc' = s.pc
    /\ error' = s.error
    /\ split_keys' = s.split_keys
    /\ split_values' = s.split_values
    /\ left_children' = s.left_children
    /\ right_children' = s.right_children
    /\ start_pos' = s.start_pos
    /\ end_pos' = s.end_pos
    /\ leaf_keys' = s.leaf_keys
    /\ response_weights' = s.response_weights
    /\ sample_keys' = s.sample_keys
    /\ oob_keys' = s.oob_keys
    /\ read_past_bucket' = s.read_past_bucket
    /\ depth' = s.depth
    /\ last_left_node_key' = s.last_left_node_key
    /\ n_open_node' = s.n_open_node
    /\ node_key' = s.node_key

(* the tree the constructor makes (TreeBase.defn.h:48-54), with `at` for   *)
(* the place of its call of grow                                            *)
NewTree(at) ==
    [pc |-> at, error |-> "",
     split_keys |-> EmptyVec, split_values |-> EmptyVec,
     left_children |-> EmptyVec, right_children |-> EmptyVec,
     start_pos |-> EmptyVec, end_pos |-> EmptyVec, leaf_keys |-> EmptyVec,
     response_weights |-> EmptyVec, sample_keys |-> EmptyVec,
     oob_keys |-> EmptyVec, read_past_bucket |-> FALSE,
     depth |-> 0, last_left_node_key |-> 0,
     n_open_node |-> 0, node_key |-> 0]

(* plant, on the main thread: n empty trees, each seeded with a number     *)
(* drawn from the forest generator g                                        *)
RECURSIVE SeedTrees(_, _, _)
SeedTrees(g, n, acc) ==
    IF n = 0 THEN [gen |-> g, trees |-> acc]
    ELSE SeedTrees(Stepped(g), n - 1,
                   PushBack(acc, [gen |-> tree_seed_gen(Drawn(g)),
                                  tree |-> NewTree("start")]))

(* the contiguous interval of trees of worker k: from IntervalStart(k) up  *)
(* to, not including, IntervalStart(k + 1)                                  *)
IntervalStart(k) == (k * NTree) \div plant_n_thread

(* grow has returned or thrown *)
Grown(tree) == tree.pc \in {"done", "threw", "undefined"}

(* plant up to the dispatch of the workers *)
plant_start ==
    /\ plant_pc = "start"
    /\ \E g \in forest_seed_gen(plant_seed) :
           /\ forest_gen' = SeedTrees(g, NTree, EmptyVec).gen
           /\ plant_trees' = SeedTrees(g, NTree, EmptyVec).trees
    /\ next_tree' = [k \in 0 .. plant_n_thread - 1 |-> IntervalStart(k)]
    /\ plant_pc' = "grow"
    /\ UNCHANGED <<plant_seed, plant_n_thread, plant_run, first_trees,
                   growVars, forestVars, ioVars, mergeVars, callVars, workVars, candidateVars,
                   predictVars>>

(* the thread of worker k is given the processor: the tree variables        *)
(* become the members of the tree it is growing                             *)
run_worker(k) ==
    /\ plant_pc = "grow"
    /\ next_tree[k] < IntervalStart(k + 1)
    /\ plant_trees[next_tree[k]].tree # TreeState
    /\ SetTree(plant_trees[next_tree[k]].tree)
    /\ UNCHANGED <<argVars, forestVars, auxVars>>

(* worker k takes one step of grow (TreeBase.defn.h:101-174) on the tree   *)
(* of its interval it is at: the call up to the node loop, or one node.    *)
(* The sample (TreeBase.defn.h:238, 256) and the candidate keys            *)
(* (TreeBase.defn.h:481, 485) are drawn from the generator of the tree,    *)
(* which a draw steps; a node that split_node closes before the search     *)
(* draws nothing, nor does a resampling that has no key to draw (no in-bag *)
(* key asked for, with replacement; no two keys to shuffle, without).      *)
grow_tree(k) ==
    LET t == next_tree[k]
        gen == plant_trees[t].gen
        key == node_key
        last_left_key == depth
        cur_depth == last_left_node_key
        searched ==
            /\ ~past_max_depth(cur_depth)
            /\ ~(get_n_sample_node(key) <= parameters.min_split_n_sample)
            /\ ~too_deep(key, last_left_key, cur_depth)
            /\ ~pure(key)
            /\ parameters.n_try > 0
        fraction == parameters.sample_fraction
        n_inbag_j(j) ==
            data.n_row * (Round(Sum(Slice(fraction, 0, j + 1)))
                              - Round(Sum(Slice(fraction, 0, j))))
        buckets == data.sample_keys_by_response
        sampled ==
            IF weighted \/ (~response_wise /\ parameters.replace)
            THEN NInbag(data.n_row, fraction[0]) > 0
            ELSE IF ~response_wise THEN data.n_row > 1
            ELSE IF parameters.replace
            THEN \E j \in DOMAIN fraction : n_inbag_j(j) > 0
            ELSE \E j \in DOMAIN fraction \cap DOMAIN buckets :
                     Size(buckets[j]) > 1
    IN  /\ plant_pc = "grow"
        /\ t < IntervalStart(k + 1)
        /\ plant_trees[t].tree = TreeState
        /\ \/ /\ grow_to_loop({DrawnOf(resample, Drawn(gen))})
              /\ plant_trees' = [plant_trees EXCEPT ![t] =
                     [gen |-> IF pc' # "threw" /\ sampled THEN Stepped(gen)
                              ELSE gen,
                      tree |-> TreeState']]
           \/ /\ grow_node({DrawnOf(split_node(node_key, depth,
                                               last_left_node_key),
                                    Drawn(gen))})
              /\ plant_trees' = [plant_trees EXCEPT ![t] =
                     [gen |-> IF searched THEN Stepped(gen) ELSE gen,
                      tree |-> TreeState']]
        /\ next_tree' = IF Grown(TreeState')
                        THEN [next_tree EXCEPT ![k] = t + 1]
                        ELSE next_tree
        /\ UNCHANGED <<plant_seed, plant_n_thread, plant_run, forest_gen,
                       plant_pc, first_trees, forestVars, ioVars,
                       mergeVars, callVars, workVars, candidateVars,
                       predictVars>>

(* Forest::grow_interval, a step of any of the workers *)
grow_interval == \E k \in DOMAIN next_tree : grow_tree(k)

(* the scheduler runs any of the workers *)
run_any_worker == \E k \in DOMAIN next_tree : run_worker(k)

(* the workers are joined and plant returns *)
plant_join ==
    /\ plant_pc = "grow"
    /\ \A k \in DOMAIN next_tree : next_tree[k] = IntervalStart(k + 1)
    /\ plant_pc' = "done"
    /\ first_trees' = IF plant_run = 1 THEN <<plant_trees>> ELSE first_trees
    /\ UNCHANGED <<plant_seed, plant_n_thread, plant_run, forest_gen,
                   plant_trees, next_tree, growVars, forestVars, ioVars,
                   mergeVars, callVars, workVars, candidateVars,
                   predictVars>>

(* the caller trains again with the same arguments, on a new forest *)
train_again ==
    /\ plant_pc = "done"
    /\ plant_run = 1
    /\ plant_run' = 2
    /\ forest_gen' = 0
    /\ plant_trees' = EmptyVec
    /\ next_tree' = EmptyVec
    /\ plant_pc' = "start"
    /\ SetTree(NewTree("idle"))
    /\ UNCHANGED <<plant_seed, plant_n_thread, first_trees, argVars,
                   forestVars, ioVars, mergeVars, callVars, workVars, candidateVars,
                   predictVars>>

(* parameters under which the sample and the candidate key of every node   *)
(* are drawn: half or all of the rows in bag, one of the two predictors    *)
(* tried at a node                                                          *)
RunParameters ==
    [replace : BOOLEAN, sample_fraction : {Vec(<<2>>), Vec(<<4>>)},
     n_try : {1}, draw_always_predictor_keys : {AlwaysFrom(NPredictor)},
     draw_predictor_weights : {EmptyVec}, response_weights : {EmptyVec},
     split_rule : {"LOGRANK"}, min_metric_decrease : {0},
     max_depth : {0}, min_split_n_sample : {1}, min_leaf_n_sample : {1}]

(* the seeds of the two trainings: seed 0 takes the state of the forest    *)
(* generator from std::random_device and is not a seed the two trainings   *)
(* can share                                                                *)
RunSeeds == 1 .. 6

InitRun ==
    /\ parameters \in RunParameters
    /\ data \in {MakeData(XBits, y, FALSE, FALSE) : y \in {YAlt, YMod3}}
    /\ case_weights = EmptyVec
    /\ compute_oob_error = TRUE
    /\ is_ordered = AllOrdered
    /\ pc = "idle"
    /\ TreeVarsEmpty
    /\ NoForest
    /\ NoCall
    /\ NoPredict
    /\ NoCandidate /\ NoWork
    /\ NoIO
    /\ NoMerge
    /\ plant_seed \in RunSeeds
    /\ plant_n_thread \in 1 .. NTree
    /\ plant_run = 1
    /\ forest_gen = 0
    /\ plant_trees = EmptyVec
    /\ next_tree = EmptyVec
    /\ plant_pc = "start"
    /\ first_trees = << >>

NextRun ==
    \/ plant_start
    \/ run_any_worker
    \/ grow_interval
    \/ plant_join
    \/ train_again

SpecRun == InitRun /\ [][NextRun]_vars

(* C8: two trainings with the same non-zero seed, n_thread and inputs give *)
(* every tree the same node arrays and leaf payload, whatever the order    *)
(* the workers take their steps in; and no step of a worker changes the    *)
(* forest generator, or the generator or the members of a tree it is not   *)
(* growing.                                                                 *)
C8_SameSeedSameTrees ==
    /\ [](plant_run = 2 /\ plant_seed # 0 =>
            \A t \in DOMAIN plant_trees :
                Grown(plant_trees[t].tree) =>
                    /\ plant_trees[t].tree.pc = first_trees[1][t].tree.pc
                    /\ plant_trees[t].tree.split_keys
                           = first_trees[1][t].tree.split_keys
                    /\ plant_trees[t].tree.split_values
                           = first_trees[1][t].tree.split_values
                    /\ plant_trees[t].tree.left_children
                           = first_trees[1][t].tree.left_children
                    /\ plant_trees[t].tree.right_children
                           = first_trees[1][t].tree.right_children
                    /\ plant_trees[t].tree.leaf_keys
                           = first_trees[1][t].tree.leaf_keys)
    /\ [][plant_pc = "grow" /\ plant_pc' = "grow" =>
            /\ forest_gen' = forest_gen
            /\ Cardinality({t \in DOMAIN plant_trees :
                              plant_trees'[t] # plant_trees[t]}) <= 1
            /\ \A t \in DOMAIN plant_trees :
                   plant_trees'[t] # plant_trees[t] =>
                       \E k \in DOMAIN next_tree : next_tree[k] = t]_vars

(* a second training with two workers in which the last worker has grown   *)
(* its tree before the first worker has taken a step; the tree has split   *)
(* its root, is the tree of the first training, and is not the tree the    *)
(* first worker grew then                                                   *)
C8_Witness ==
    /\ plant_run = 2
    /\ plant_seed # 0
    /\ plant_n_thread > 1
    /\ plant_pc = "grow"
    /\ plant_trees[NTree - 1].tree.pc = "done"
    /\ plant_trees[0].tree.pc = "start"
    /\ Size(plant_trees[NTree - 1].tree.split_keys) > 1
    /\ plant_trees[NTree - 1].tree.split_keys
           = first_trees[1][NTree - 1].tree.split_keys
    /\ plant_trees[NTree - 1].tree.leaf_keys
           = first_trees[1][NTree - 1].tree.leaf_keys
    /\ first_trees[1][0].tree.leaf_keys
           # first_trees[1][NTree - 1].tree.leaf_keys

(***************************************************************************)
(* Merging two forests (cpp11_merge.cpp).                                  *)
(***************************************************************************)
(* std::unordered_map::operator[]: a missing key reads as 0 *)
MapAt(key_map, k) == IF k \in DOMAIN key_map THEN key_map[k] ELSE 0

(* make_key_map (cpp11_merge.cpp:192-216): the loop from j_to on; the      *)
(* result is the map, the exception thrown, or undefined when to_values is *)
(* read past its end                                                        *)
RECURSIVE make_key_map_from(_, _, _, _)
make_key_map_from(from_values, to_values, j_to, key_map) ==
    IF j_to = Size(from_values)
    THEN [kind |-> "value", key_map |-> key_map, error |-> ""]
    ELSE IF j_to >= Size(to_values)
    THEN [kind |-> "undefined", key_map |-> key_map, error |-> ""]
    ELSE IF Find(from_values, to_values[j_to]) >= Size(from_values)
    THEN [kind |-> "throw", key_map |-> key_map,
          error |-> "DomainError: Mapped value must be from same domain"]
    ELSE IF Find(from_values, to_values[j_to]) \in DOMAIN key_map
    THEN [kind |-> "throw", key_map |-> key_map,
          error |-> "DomainError: Mapping must be injective"]
    ELSE make_key_map_from(from_values, to_values, j_to + 1,
             MapPut(key_map, Find(from_values, to_values[j_to]), j_to))

make_key_map(from_values, to_values) ==
    make_key_map_from(from_values, to_values, 0, EmptyVec)

(* the copying constructors (TreeBase.defn.h:68-75,                         *)
(* TreeClassification.defn.h:70-78)                                         *)
make_tree(save_memory, n_pred, ordered, tree) ==
    [tree EXCEPT !.save_memory = save_memory, !.n_predictor = n_pred,
                 !.is_ordered = ordered]

(* TreeBase::transform_split_keys (TreeBase.defn.h:177-193) *)
transform_split_keys_mut(tree, key_map) == [kind |-> "value", tree |-> tree, error |-> ""]
transform_split_keys(tree, key_map) ==
    IF Size(key_map) # tree.n_predictor
    THEN [kind |-> "throw", tree |-> tree,
          error |-> "InvalidArgument: Require a mapping for all existing predictor-keys"]
    ELSE IF \E j \in 0 .. tree.n_predictor - 1 :
                j \notin DOMAIN key_map \/ key_map[j] >= tree.n_predictor
    THEN [kind |-> "throw", tree |-> tree,
          error |-> "DomainError: Invalid predictor-key value in mapping"]
    ELSE [kind |-> "value",
          tree |-> [tree EXCEPT !.split_keys =
                       [n \in DOMAIN tree.split_keys |->
                           MapAt(key_map, tree.split_keys[n])]],
          error |-> ""]

(* TreeClassification::transform_response_keys                              *)
(* (TreeClassification.defn.h:84-98): the loop over the std::unordered_map  *)
(* visits the entries in an order the map does not fix and the later write *)
(* to a mapped key wins, so there is one outcome for each choice w of the  *)
(* key written last to every mapped key; a weight written or read past the *)
(* end of response_weights is undefined                                     *)
transform_response_keys(tree, key_map) ==
    IF \E k \in DOMAIN key_map :
           \/ k \notin DOMAIN tree.response_weights
           \/ key_map[k] \notin DOMAIN tree.response_weights
    THEN {[kind |-> "undefined", tree |-> tree]}
    ELSE {[kind |-> "value",
           tree |-> [tree EXCEPT
              !.response_weights =
                  [k \in DOMAIN tree.response_weights |->
                      IF k \in DOMAIN w
                      THEN tree.response_weights[w[k]]
                      ELSE tree.response_weights[k]],
              !.leaf_keys =
                  [leaf \in DOMAIN tree.leaf_keys |->
                      [i \in DOMAIN tree.leaf_keys[leaf] |->
                          MapAt(key_map, tree.leaf_keys[leaf][i])]],
              !.leaf_most_frequent =
                  [leaf \in DOMAIN tree.leaf_most_frequent |->
                      MapAt(key_map, tree.leaf_most_frequent[leaf])]]]
          : w \in {w \in [Values(key_map) -> DOMAIN key_map] :
                      \A k \in Values(key_map) : key_map[w[k]] = k}}

(* the trees cpp11_merge can make of a tree of y (cpp11_merge.cpp:132-142, *)
(* 163-170): the dynamic_cast to the tree class of tree_type, the copy,    *)
(* then the two transforms                                                  *)
merged_y_tree(save_memory, n_pred, ordered, tree, predictor_map, key_map, tree_type) ==
    IF tree.type # (IF tree_type = "classification" THEN "TreeClassification"
                    ELSE "TreeRegression")
    THEN {[kind |-> "throw", tree |-> tree, error |-> "bad_cast: std::bad_cast"]}
    ELSE UNION {
        IF split.kind # "value" \/ tree_type # "classification" THEN {split}
        ELSE {[kind |-> resp.kind, tree |-> resp.tree, error |-> ""]
              : resp \in transform_response_keys(split.tree, key_map)}
        : split \in {transform_split_keys(
                         make_tree(save_memory, n_pred, ordered, tree),
                         predictor_map)} }

(* what cpp11_merge can do with its arguments: the set of                   *)
(* [kind, result, error]; the dynamic_casts (cpp11_merge.cpp:112-113, 124, *)
(* 151-152, 156) throw std::bad_cast on an object of another class          *)
merge_outcome(a) ==
    LET forest_class == IF a.x.tree_type = "classification"
                        THEN "ForestClassification" ELSE "ForestRegression"
        tree_class == IF a.x.tree_type = "classification"
                      THEN "TreeClassification" ELSE "TreeRegression"
        x_forest == a.x.cpp11_ptr
        y_forest == a.y.cpp11_ptr
        n_pred == x_forest.n_predictor
        ordered == x_forest.is_ordered
        thrown(e) == [kind |-> "throw", result |-> << >>, error |-> e]
        undefined == [kind |-> "undefined", result |-> << >>, error |-> ""]
    IN  IF a.x.tree_type # a.y.tree_type
        THEN {thrown("InvalidArgument: Forest type must match")}
        ELSE IF n_pred # y_forest.n_predictor
        THEN {thrown("InvalidArgument: Forest predictor count must match")}
        ELSE UNION {
          IF pm.kind = "throw" THEN {thrown(pm.error)}
          ELSE IF pm.kind = "undefined" THEN {undefined}
          ELSE IF \E k \in DOMAIN pm.key_map :
                      \/ k \notin DOMAIN y_forest.is_ordered
                      \/ pm.key_map[k] \notin DOMAIN ordered
          THEN {undefined}
          ELSE IF \E k \in DOMAIN pm.key_map :
                      y_forest.is_ordered[k] # ordered[pm.key_map[k]]
          THEN {thrown("InvalidArgument: Predictors must have same ordered property.")}
          ELSE IF a.x.tree_type \notin TreeTypeNames
          THEN {thrown("InvalidArgument: Invalid tree type.")}
          ELSE IF \/ x_forest.type # forest_class
                  \/ y_forest.type # forest_class
          THEN {thrown("bad_cast: std::bad_cast")}
          ELSE UNION {
            IF km.kind = "throw" THEN {thrown(km.error)}
            ELSE IF km.kind = "undefined" THEN {undefined}
            ELSE IF \E i \in DOMAIN x_forest.trees :
                        x_forest.trees[i].type # tree_class
            THEN {thrown("bad_cast: std::bad_cast")}
            ELSE {
              IF \E j \in DOMAIN ys : ys[j].kind # "value"
              THEN The({ IF ys[j].kind = "throw" THEN thrown(ys[j].error)
                         ELSE undefined
                         : j \in {CHOOSE j \in DOMAIN ys :
                                     /\ ys[j].kind # "value"
                                     /\ \A i \in DOMAIN ys :
                                            i < j => ys[i].kind = "value"} })
              ELSE [kind |-> "value",
                    result |->
                        [tree_type |-> a.x.tree_type,
                         oob_error |-> << >>,
                         cpp11_ptr |->
                             [type |-> forest_class,
                              save_memory |-> a.save_memory,
                              n_predictor |-> n_pred,
                              is_ordered |-> ordered,
                              trees |->
                                  Concat([i \in DOMAIN x_forest.trees |->
                                             make_tree(a.save_memory, n_pred,
                                                 ordered, x_forest.trees[i])],
                                         [j \in DOMAIN ys |-> ys[j].tree]),
                              response_values |-> x_forest.response_values]],
                    error |-> ""]
              : ys \in {f \in [DOMAIN y_forest.trees ->
                                  UNION {merged_y_tree(a.save_memory, n_pred,
                                             ordered, y_forest.trees[j],
                                             pm.key_map, km.key_map,
                                             a.x.tree_type)
                                         : j \in DOMAIN y_forest.trees}] :
                           \A j \in DOMAIN y_forest.trees :
                               f[j] \in merged_y_tree(a.save_memory, n_pred,
                                            ordered, y_forest.trees[j],
                                            pm.key_map, km.key_map,
                                            a.x.tree_type)} }
            : km \in {IF a.x.tree_type = "classification"
                      THEN make_key_map(y_forest.response_values,
                                        x_forest.response_values)
                      ELSE [kind |-> "value", key_map |-> EmptyVec,
                            error |-> ""]} }
          : pm \in {make_key_map(a.y_predictors, a.x_predictors)} }

(* cpp11_merge (cpp11_merge.cpp:57-187) *)
cpp11_merge ==
    /\ merge_pc = "ready"
    /\ \E out \in merge_outcome(merge_args) :
           /\ merge_pc' = IF out.kind = "value" THEN "done"
                          ELSE IF out.kind = "throw" THEN "threw"
                          ELSE "undefined"
           /\ merge_result' = out.result
           /\ merge_error' = out.error
    /\ merge_args' = merge_args
    /\ UNCHANGED <<growVars, forestVars, ioVars, runVars, callVars, workVars, candidateVars,
                   predictVars>>

(* a grown classification tree over n_key response keys, a stump or one    *)
(* split on predictor 1                                                     *)
MergeClassificationTree(split, n_key) ==
    [type |-> "TreeClassification", save_memory |-> FALSE,
     n_predictor |-> NPredictor, is_ordered |-> AllOrdered,
     split_keys |-> TreeShape("", split).split_keys,
     split_values |-> TreeShape("", split).split_values,
     left_children |-> TreeShape("", split).left_children,
     right_children |-> TreeShape("", split).right_children,
     response_weights |-> [k \in 0 .. n_key - 1 |-> k + 1],
     leaf_keys |-> IF split
                   THEN (1 :> Vec(<<0>>)) @@ (2 :> Vec(<<n_key - 1, 0>>))
                   ELSE (0 :> Vec(<<0, n_key - 1, n_key - 1>>)),
     leaf_most_frequent |-> IF split THEN (2 :> n_key - 1) ELSE EmptyVec]

MergeClassificationTrees(n_key) ==
    {MergeClassificationTree(split, n_key) : split \in BOOLEAN}

(* tree lists of up to NTree trees *)
MergeLists(S) ==
    {[i \in 0 .. n - 1 |-> IF i % 2 = 0 THEN a ELSE b]
        : n \in 1 .. NTree, a \in S, b \in S}

(* predictor names, as numbers other than the keys *)
PredictorNames == [c \in Preds |-> 10 + c]
PredictorOrders == {p \in [Preds -> Preds] : \A c, d \in Preds : p[c] = p[d] => c = d}
MergeOrdered == {[c \in Preds |-> TRUE], [c \in Preds |-> c # 0]}

MergeForest(type, ordered, ts, response_values) ==
    [type |-> type, save_memory |-> FALSE, n_predictor |-> NPredictor,
     is_ordered |-> ordered,
     trees |-> [i \in DOMAIN ts |-> [ts[i] EXCEPT !.is_ordered = ordered]],
     response_values |-> response_values]

MergeObject(tree_type, forest) ==
    [tree_type |-> tree_type, cpp11_ptr |-> forest]

(* the second forest's predictors are the first's in the order p; its      *)
(* is_ordered is y_ordered                                                  *)
MergeArgs(tree_type, x_forest, y_forest, p, save_memory) ==
    [x |-> MergeObject(tree_type[1], x_forest),
     y |-> MergeObject(tree_type[2], y_forest),
     x_predictors |-> PredictorNames,
     y_predictors |-> [c \in Preds |-> PredictorNames[p[c]]],
     save_memory |-> save_memory]

YOrdered(ordered, p) == {[c \in Preds |-> ordered[p[c]]], [c \in Preds |-> TRUE]}

YResponseValues == {Vec(<<0, 2>>), Vec(<<2, 0, 4>>), Vec(<<2, 4>>), Vec(<<0, 6>>)}

ClassificationMerges ==
    { MergeArgs(<<"classification", "classification">>,
          MergeForest("ForestClassification", ordered, xs, Vec(<<0, 2, 4>>)),
          MergeForest("ForestClassification", yo[2], yo[3], yo[1]),
          p, save_memory)
      : ordered \in MergeOrdered, p \in PredictorOrders, save_memory \in BOOLEAN,
        xs \in MergeLists(MergeClassificationTrees(3)),
        yo \in UNION {{<<v, o, ys>> :
                          o \in UNION {YOrdered(od, q) : od \in MergeOrdered,
                                                        q \in PredictorOrders},
                          ys \in MergeLists(MergeClassificationTrees(Size(v)))}
                      : v \in YResponseValues} }

RegressionMerges ==
    { MergeArgs(<<"regression", "regression">>,
          MergeForest("ForestRegression", ordered, xs, EmptyVec),
          MergeForest("ForestRegression", y_ordered, ys, EmptyVec),
          p, FALSE)
      : ordered \in MergeOrdered, p \in PredictorOrders,
        xs \in MergeLists(RegressionTrees), ys \in MergeLists(RegressionTrees),
        y_ordered \in UNION {YOrdered(od, q) : od \in MergeOrdered,
                                               q \in PredictorOrders} }

MismatchedMerges ==
    { MergeArgs(<<"classification", "regression">>,
          MergeForest("ForestClassification", AllOrdered,
                      Vec(<<MergeClassificationTree(FALSE, 3)>>),
                      Vec(<<0, 2, 4>>)),
          MergeForest("ForestRegression", AllOrdered,
                      Vec(<<RegressionTree(FALSE, EmptyVec)>>), EmptyVec),
          [c \in Preds |-> c], FALSE) }

(* objects whose tree_type names the other class than their forests have  *)
MiscastMerges ==
    { MergeArgs(<<"regression", "regression">>,
          MergeForest("ForestClassification", AllOrdered,
                      Vec(<<MergeClassificationTree(FALSE, 3)>>),
                      Vec(<<0, 2, 4>>)),
          MergeForest("ForestClassification", AllOrdered,
                      Vec(<<MergeClassificationTree(split, 3)>>),
                      Vec(<<0, 2, 4>>)),
          [c \in Preds |-> c], FALSE) : split \in BOOLEAN }

InitMerge ==
    /\ NoTree
    /\ NoForest
    /\ NoCall
    /\ NoPredict
    /\ NoCandidate /\ NoWork
    /\ NoIO
    /\ NoRun
    /\ merge_args \in ClassificationMerges \cup RegressionMerges
                          \cup MismatchedMerges \cup MiscastMerges
    /\ merge_result = << >>
    /\ merge_error = ""
    /\ merge_pc = "ready"

NextMerge == cpp11_merge

SpecMerge == InitMerge /\ [][NextMerge]_vars

(* the conditions under which the specification lets two classification    *)
(* forests be merged: same predictor count, the second forest's predictor  *)
(* names a rearrangement of the first's that keeps is_ordered, the second  *)
(* forest's response values among the first's                               *)
MergeableClassification ==
    LET x_forest == merge_args.x.cpp11_ptr
        y_forest == merge_args.y.cpp11_ptr
    IN  /\ merge_args.x.tree_type = "classification"
        /\ merge_args.y.tree_type = "classification"
        /\ x_forest.n_predictor = y_forest.n_predictor
        /\ Values(merge_args.y_predictors) = Values(merge_args.x_predictors)
        /\ \A c \in DOMAIN merge_args.y_predictors :
               y_forest.is_ordered[c] =
                   x_forest.is_ordered[Find(merge_args.x_predictors,
                                            merge_args.y_predictors[c])]
        /\ Values(y_forest.response_values)
               \subseteq Values(x_forest.response_values)

(* C9: cpp11_merge of two classification forests that may be merged        *)
(* completes, wherever the second forest's response values lie in the      *)
(* first's, and every leaf response key k of a tree of the second forest   *)
(* becomes the index, in the first forest's response values, of the second *)
(* forest's response value k.                                               *)
C9_MergeRewritesResponseKeys ==
    (merge_pc \notin {"idle", "ready"} /\ MergeableClassification) =>
        /\ merge_pc = "done"
        /\ LET x_forest == merge_args.x.cpp11_ptr
               y_forest == merge_args.y.cpp11_ptr
               merged == merge_result.cpp11_ptr.trees
           IN  \A j \in DOMAIN y_forest.trees :
                   \A leaf \in DOMAIN y_forest.trees[j].leaf_keys :
                       \A i \in DOMAIN y_forest.trees[j].leaf_keys[leaf] :
                           merged[Size(x_forest.trees) + j].leaf_keys[leaf][i] =
                               Find(x_forest.response_values,
                                    y_forest.response_values[
                                        y_forest.trees[j].leaf_keys[leaf][i]])

(* C10: the forest cpp11_merge returns holds the first forest's trees, in  *)
(* order and with their arrays and payloads as they were, then the second  *)
(* forest's trees with every split key k replaced by the index, in the     *)
(* first forest's predictor names, of the second forest's predictor name   *)
(* k; the result's oob_error is null and the arguments are as they were.   *)
C10_MergedForest ==
    [][ (merge_pc = "ready" /\ merge_pc' = "done") =>
        LET x_forest == merge_args.x.cpp11_ptr
            y_forest == merge_args.y.cpp11_ptr
            merged == merge_result'.cpp11_ptr.trees
            n_x == Size(x_forest.trees)
        IN  /\ Size(merged) = n_x + Size(y_forest.trees)
            /\ \A i \in DOMAIN x_forest.trees :
                   [merged[i] EXCEPT !.save_memory = x_forest.trees[i].save_memory]
                       = x_forest.trees[i]
            /\ \A j \in DOMAIN y_forest.trees :
                   /\ DOMAIN merged[n_x + j].split_keys
                          = DOMAIN y_forest.trees[j].split_keys
                   /\ \A n \in DOMAIN y_forest.trees[j].split_keys :
                          merged[n_x + j].split_keys[n] =
                              Find(merge_args.x_predictors,
                                   merge_args.y_predictors[
                                       y_forest.trees[j].split_keys[n]])
                   /\ merged[n_x + j].split_values
                          = y_forest.trees[j].split_values
                   /\ merged[n_x + j].left_children
                          = y_forest.trees[j].left_children
                   /\ merged[n_x + j].right_children
                          = y_forest.trees[j].right_children
            /\ merge_result'.oob_error = << >>
            /\ merge_args' = merge_args ]_vars

(* a merge that returned, of forests of more than one tree, the second     *)
(* with a split tree and its predictors in another order than the first's  *)
C10_Witness ==
    /\ merge_pc = "done"
    /\ merge_args.y_predictors # merge_args.x_predictors
    /\ Size(merge_args.x.cpp11_ptr.trees) > 1
    /\ \E j \in DOMAIN merge_args.y.cpp11_ptr.trees :
           Size(merge_args.y.cpp11_ptr.trees[j].split_keys) > 1
    /\ Size(merge_result.cpp11_ptr.trees) =
           Size(merge_args.x.cpp11_ptr.trees) + Size(merge_args.y.cpp11_ptr.trees)

(***************************************************************************)
(* TreeBase::transform_split_keys called on a grown tree with any map.     *)
(***************************************************************************)
(* the maps handed to the call: keys and values up to one past the last    *)
(* predictor key                                                            *)
KeyMaps ==
    UNION {[D -> 0 .. NPredictor] : D \in SUBSET (0 .. NPredictor)}

(* node arrays of grown trees: a stump, one split, two splits *)
GrownSplitKeys ==
    {Vec(<<0>>), Vec(<<1, 0, 0>>), Vec(<<0, NPredictor - 1, 0, 0, 0>>)}

InitTransform ==
    /\ parameters = << >>
    /\ data = << >>
    /\ case_weights = EmptyVec
    /\ compute_oob_error = FALSE
    /\ is_ordered = AllOrdered
    /\ split_keys \in GrownSplitKeys
    /\ split_values = [n \in DOMAIN split_keys |-> 0]
    /\ left_children = [n \in DOMAIN split_keys |-> 0]
    /\ right_children = [n \in DOMAIN split_keys |-> 0]
    /\ start_pos = EmptyVec
    /\ end_pos = EmptyVec
    /\ leaf_keys = EmptyVec
    /\ response_weights = EmptyVec
    /\ sample_keys = EmptyVec
    /\ oob_keys = EmptyVec
    /\ depth = 0
    /\ last_left_node_key = 0
    /\ n_open_node = 0
    /\ node_key = 0
    /\ read_past_bucket = FALSE
    /\ pc = "done"
    /\ error = ""
    /\ NoForest
    /\ NoIO
    /\ NoRun
    /\ NoMerge
    /\ NoPredict
    /\ NoCandidate /\ NoWork
    /\ key_map_arg \in KeyMaps

(* the call tree.transform_split_keys(key_map_arg)                          *)
(* (TreeBase.defn.h:177-193)                                                *)
transform_split_keys_call ==
    /\ pc = "done"
    /\ \E out \in {transform_split_keys(
                       [n_predictor |-> n_predictor, split_keys |-> split_keys],
                       key_map_arg)} :
           IF out.kind = "throw"
           THEN /\ pc' = "threw"
                /\ error' = out.error
                /\ UNCHANGED split_keys
           ELSE /\ pc' = "transformed"
                /\ split_keys' = out.tree.split_keys
                /\ UNCHANGED error
    /\ UNCHANGED <<argVars, split_values, left_children, right_children,
                   start_pos, end_pos, leaf_keys, response_weights,
                   sample_keys, oob_keys, depth, last_left_node_key,
                   n_open_node, node_key, read_past_bucket, forestVars,
                   auxVars>>

NextTransform == transform_split_keys_call

SpecTransform == InitTransform /\ [][NextTransform]_vars

(* a map that is a total bijection on [0, n_predictor) *)
TotalBijection(m) ==
    /\ DOMAIN m = 0 .. n_predictor - 1
    /\ \A k \in DOMAIN m : m[k] \in 0 .. n_predictor - 1
    /\ \A k, l \in DOMAIN m : m[k] = m[l] => k = l

(* C11: transform_split_keys fails and leaves every split key as it was    *)
(* unless the map is a total bijection on [0, n_predictor): a missing key, *)
(* a value out of range or two keys with one value are rejected; when it   *)
(* succeeds every split key k becomes map[k].                              *)
C11_TransformNeedsBijection ==
    [][ (pc = "done" /\ pc' # "done") =>
        IF TotalBijection(key_map_arg)
        THEN /\ pc' = "transformed"
             /\ split_keys' = [n \in DOMAIN split_keys |->
                                  key_map_arg[split_keys[n]]]
        ELSE /\ pc' = "threw"
             /\ split_keys' = split_keys ]_vars

(***************************************************************************)
(* INBAG prediction of a classification forest                             *)
(* (ForestClassification.defn.h:284-353): new_predictions<INBAG>, then one *)
(* predict_one_tree<INBAG> per tree, the workers taking the trees in any   *)
(* order.                                                                   *)
(***************************************************************************)
(* ForestClassification::response_values of the forest that predicts *)
PredictResponseValues == Vec(<<5, 7>>)

(* a trained tree whose in-bag leaf values are the response keys `keys`:   *)
(* a root leaf, or a split of predictor 0 at 1 with the first key left     *)
PredictTree(split, keys) ==
    [split_keys |-> IF split THEN Vec(<<0, 0, 0>>) ELSE Vec(<<0>>),
     split_values |-> IF split THEN Vec(<<1, 0, 0>>) ELSE Vec(<<0>>),
     left_children |-> IF split THEN Vec(<<1, 0, 0>>) ELSE Vec(<<0>>),
     right_children |-> IF split THEN Vec(<<2, 0, 0>>) ELSE Vec(<<0>>),
     leaf_keys |-> IF split
                   THEN (1 :> Vec(<<keys[0]>>)) @@ (2 :> keys)
                   ELSE (0 :> keys),
     response_weights |-> Vec(<<1, 1>>),
     leaf_most_frequent |-> EmptyVec]

PredictTrees ==
    {PredictTree(FALSE, Vec(<<0, 0>>)), PredictTree(TRUE, Vec(<<1, 1>>)),
     PredictTree(TRUE, Vec(<<0, 1>>)), PredictTree(FALSE, EmptyVec)}

InitPredict ==
    /\ parameters = << >>
    /\ data = NewData(XRamp, YAlt)
    /\ case_weights = EmptyVec
    /\ compute_oob_error = FALSE
    /\ is_ordered = AllOrdered
    /\ pc = "idle"
    /\ TreeVarsEmpty
    /\ forest_save_memory = FALSE
    /\ forest_parameters = EmptyVec
    /\ trees \in [0 .. NTree - 1 -> PredictTrees]
    /\ oob_keys_by_tree = EmptyVec
    /\ oob_predictions = EmptyVec
    /\ tree_key = 0
    /\ forest_pc = "idle"
    /\ oob_error = [num |-> 0, den |-> 1]
    /\ NoIO /\ NoRun /\ NoMerge /\ NoCall /\ NoCandidate
    /\ work_kind = "INBAG"
    /\ mutex = -1
    /\ event_count = 0
    /\ interrupted = FALSE
    /\ user_interrupt = FALSE
    /\ progress_pc = "idle"
    /\ worker_pc = [w \in 1 .. NTree |-> "predict"]
    /\ work_item = [w \in 1 .. NTree |-> w - 1]
    /\ worker_predictions = [w \in 1 .. NTree |-> EmptyVec]
    /\ predictions_to_bag = << >>
    /\ prediction_nodes = << >>
    /\ prediction_keys_by_tree = EmptyVec
    /\ aggregate_predictions = EmptyVec
    /\ predicted_trees = {}
    /\ predict_pc = "start"

(* the per-tree row lists the loop of new_predictions<INBAG> builds from   *)
(* the draws U_rng(gen), tree_of[sample_key] being the draw for the row    *)
assign_predictions_mut(tree_of) == [t \in 0 .. NTree - 1 |-> SortedVec({r \in DOMAIN tree_of : tree_of[r] <= t})]
assign_predictions(tree_of) ==
    [t \in 0 .. NTree - 1 |->
        SortedVec({r \in DOMAIN tree_of : tree_of[r] = t})]

(* ForestClassification::new_predictions<INBAG> *)
new_predictions_inbag ==
    /\ predict_pc = "start"
    /\ \E tree_of \in [0 .. data.n_row - 1 -> 0 .. Size(trees) - 1] :
           prediction_keys_by_tree' = assign_predictions(tree_of)
    /\ aggregate_predictions' = [r \in 0 .. data.n_row - 1 |-> 0]
    /\ predicted_trees' = {}
    /\ predict_pc' = "predict"
    /\ UNCHANGED <<growVars, forestVars, ioVars, runVars, mergeVars, callVars, workVars, candidateVars>>

(* TreeClassification::predict_from_inbag<INBAG>: the values the draw of a *)
(* bag key can return; on an empty leaf the bounds of the draw are 0 and   *)
(* size() - 1 with size() = 0, which is undefined                          *)
predict_from_inbag_inbag(t, node) == Values(t.leaf_keys[node])

(* ForestClassification::predict_one_tree<INBAG> for tree t, taken once by *)
(* a worker, in the steps other threads can see: the draws of the tree's   *)
(* predictions into the local tree_predictions, made without the mutex;    *)
(* std::unique_lock<std::mutex> lock(mutex), which waits while another     *)
(* worker holds it; the copy to aggregate_predictions; the end of the      *)
(* locked block.  The worker that took tree t is worker t + 1.             *)
predict_one_tree_inbag(t) ==
    LET w == t + 1
        keys == prediction_keys_by_tree[t]
        n_predict == Size(keys)
        compute ==
            /\ worker_pc[w] = "predict"
            /\ IF \E j \in DOMAIN keys :
                     Size(trees[t].leaf_keys[
                              PredictLeaf(trees[t], 0, keys[j])]) = 0
               THEN /\ predict_pc' = "undefined"
                    /\ UNCHANGED <<worker_pc, worker_predictions>>
               ELSE /\ \E tree_predictions \in
                           [0 .. n_predict - 1 ->
                               0 .. Size(PredictResponseValues) - 1] :
                          /\ \A j \in 0 .. n_predict - 1 :
                                 tree_predictions[j] \in
                                     predict_from_inbag_inbag(trees[t],
                                         PredictLeaf(trees[t], 0, keys[j]))
                          /\ worker_predictions' =
                                 [worker_predictions EXCEPT
                                      ![w] = tree_predictions]
                    /\ worker_pc' = [worker_pc EXCEPT ![w] = "lock_write"]
                    /\ UNCHANGED predict_pc
            /\ UNCHANGED <<mutex, aggregate_predictions, predicted_trees>>
        lock ==
            /\ worker_pc[w] = "lock_write"
            /\ mutex = -1
            /\ mutex' = w
            /\ worker_pc' = [worker_pc EXCEPT ![w] = "write"]
            /\ UNCHANGED <<worker_predictions, aggregate_predictions,
                           predicted_trees, predict_pc>>
        write ==
            /\ worker_pc[w] = "write"
            /\ aggregate_predictions' =
                   [r \in DOMAIN aggregate_predictions |->
                       IF r \in Values(keys)
                       THEN PredictResponseValues[
                                worker_predictions[w][Find(keys, r)]]
                       ELSE aggregate_predictions[r]]
            /\ worker_pc' = [worker_pc EXCEPT ![w] = "unlock_write"]
            /\ UNCHANGED <<worker_predictions, mutex, predicted_trees,
                           predict_pc>>
        unlock ==
            /\ worker_pc[w] = "unlock_write"
            /\ mutex' = -1
            /\ worker_pc' = [worker_pc EXCEPT ![w] = "done"]
            /\ predicted_trees' = predicted_trees \cup {t}
            /\ predict_pc' = IF predicted_trees \cup {t} = DOMAIN trees
                             THEN "predicted" ELSE "predict"
            /\ UNCHANGED <<worker_predictions, aggregate_predictions>>
    IN  /\ predict_pc = "predict"
        /\ t \notin predicted_trees
        /\ compute \/ lock \/ write \/ unlock
        /\ UNCHANGED <<growVars, forestVars, ioVars, runVars, mergeVars,
                       callVars, candidateVars, prediction_keys_by_tree,
                       work_kind, event_count, interrupted, user_interrupt,
                       progress_pc, work_item, predictions_to_bag,
                       prediction_nodes>>

predict_any_tree == \E t \in DOMAIN trees : predict_one_tree_inbag(t)

NextPredict == new_predictions_inbag \/ predict_any_tree

SpecPredict == InitPredict /\ [][NextPredict]_vars

(* C16: after the setup of INBAG prediction every row of the prediction    *)
(* data is in the row list of exactly one tree, once; a tree that is       *)
(* processed writes the results of the rows of its list, each a response   *)
(* value of the leaf the row falls in, and no other result; every tree is  *)
(* processed once, in any order, so that when all are processed every row  *)
(* has been written once by its tree.                                      *)
C16_InbagRowsWrittenOnce ==
    /\ [](predict_pc \in {"predict", "predicted"} =>
            \A r \in 0 .. data.n_row - 1 :
                /\ Cardinality({t \in DOMAIN prediction_keys_by_tree :
                        r \in Values(prediction_keys_by_tree[t])}) = 1
                /\ \A t \in DOMAIN prediction_keys_by_tree :
                        Count(prediction_keys_by_tree[t], r) <= 1)
    /\ [](predict_pc = "predicted" =>
            /\ predicted_trees = DOMAIN trees
            /\ \A r \in DOMAIN aggregate_predictions :
                   aggregate_predictions[r] \in Values(PredictResponseValues))
    /\ [][ predict_pc = "predict" =>
            /\ \A t \in DOMAIN trees :
                   (worker_pc[t + 1] = "write" /\ worker_pc'[t + 1] # "write")
                       => /\ t \notin predicted_trees
                          /\ \A r \in DOMAIN aggregate_predictions :
                               IF r \in Values(prediction_keys_by_tree[t])
                               THEN aggregate_predictions'[r] \in
                                        {PredictResponseValues[k] : k \in
                                            Values(trees[t].leaf_keys[
                                                PredictLeaf(trees[t], 0, r)])}
                               ELSE aggregate_predictions'[r]
                                        = aggregate_predictions[r]
            /\ aggregate_predictions' # aggregate_predictions
                   => \E t \in DOMAIN trees : worker_pc[t + 1] = "write"
            /\ \A t \in DOMAIN trees :
                   /\ t \in predicted_trees => worker_pc'[t + 1] = "done"
                   /\ worker_pc'[t + 1] = "write" => worker_pc[t + 1] # "done"
                   /\ predicted_trees' # predicted_trees =>
                          \E u \in DOMAIN trees \ predicted_trees :
                              /\ worker_pc[u + 1] = "unlock_write"
                              /\ predicted_trees' = predicted_trees \cup {u}
          ]_vars

(* all trees are processed, each had rows to predict, and the results show *)
(* which tree wrote which row                                               *)
C16_Witness ==
    /\ predict_pc = "predicted"
    /\ \A t \in DOMAIN prediction_keys_by_tree :
           Size(prediction_keys_by_tree[t]) > 0
    /\ \E q, r \in DOMAIN aggregate_predictions :
           aggregate_predictions[q] # aggregate_predictions[r]

(***************************************************************************)
(* The predictor index of the Data view and its permutation                *)
(* (Data.defn.h:86-153, 255-282): predictor_index is one vector, the key   *)
(* of row r of column c at c * n_row + r.                                  *)
(***************************************************************************)
(* Data::as_row_offset *)
as_row_offset(d, sample_key, permute) ==
    IF ~permute THEN sample_key ELSE d.permuted_sample_keys[sample_key]

(* Data::rawget_unique_key and, for predictor_key < n_col, get_unique_key  *)
rawget_unique_key(d, sample_key, predictor_key, permute) ==
    d.predictor_index[predictor_key * d.n_row
                          + as_row_offset(d, sample_key, permute)]

(* Data::has_predictor_index *)
has_predictor_index(d) == d.max_n_unique_value # 0

(* the largest of a set of sizes, 0 when there is none *)
MaxOf(S) == IF S = {} THEN 0 ELSE CHOOSE m \in S : \A n \in S : n <= m

(* Data::new_predictor_index *)
new_predictor_index ==
    /\ data' = [data EXCEPT
           !.predictor_index =
               [k \in 0 .. data.n_col * data.n_row - 1 |->
                   predictor_index(data.x)[k \div data.n_row][k % data.n_row]],
           !.unique_predictor_values = unique_predictor_values(data.x),
           !.max_n_unique_value =
               MaxOf({Size(unique_predictor_values(data.x)[c]) : c \in Preds})]
    /\ UNCHANGED <<parameters, case_weights, compute_oob_error, is_ordered,
                   split_keys, split_values, left_children, right_children,
                   start_pos, end_pos, leaf_keys, response_weights,
                   sample_keys, oob_keys, depth, last_left_node_key,
                   n_open_node, node_key, read_past_bucket, pc, error,
                   forestVars, auxVars>>

(* Data::finalise_predictor_index *)
finalise_predictor_index ==
    /\ has_predictor_index(data)
    /\ data' = [data EXCEPT !.predictor_index = EmptyVec,
                            !.unique_predictor_values = EmptyVec,
                            !.max_n_unique_value = 0]
    /\ UNCHANGED <<parameters, case_weights, compute_oob_error, is_ordered,
                   split_keys, split_values, left_children, right_children,
                   start_pos, end_pos, leaf_keys, response_weights,
                   sample_keys, oob_keys, depth, last_left_node_key,
                   n_open_node, node_key, read_past_bucket, pc, error,
                   forestVars, auxVars>>

(* Data::new_permutation: std::iota, then every order std::shuffle can     *)
(* leave                                                                    *)
new_permutation ==
    /\ \E shuffled \in shuffle(0 .. data.n_row - 1) :
           data' = [data EXCEPT !.permuted_sample_keys = shuffled]
    /\ UNCHANGED <<parameters, case_weights, compute_oob_error, is_ordered,
                   split_keys, split_values, left_children, right_children,
                   start_pos, end_pos, leaf_keys, response_weights,
                   sample_keys, oob_keys, depth, last_left_node_key,
                   n_open_node, node_key, read_past_bucket, pc, error,
                   forestVars, auxVars>>

(* Data::finalise_permutation *)
finalise_permutation ==
    /\ Size(data.permuted_sample_keys) # 0
    /\ data' = [data EXCEPT !.permuted_sample_keys = EmptyVec]
    /\ UNCHANGED <<parameters, case_weights, compute_oob_error, is_ordered,
                   split_keys, split_values, left_children, right_children,
                   start_pos, end_pos, leaf_keys, response_weights,
                   sample_keys, oob_keys, depth, last_left_node_key,
                   n_open_node, node_key, read_past_bucket, pc, error,
                   forestVars, auxVars>>

(* a constant column next to a column of distinct values *)
XFlat == [r \in Rows |-> [c \in Preds |-> IF c = 0 THEN 7 ELSE NRow - r]]

(* the Data view as its constructor leaves it: no index, no permutation *)
RawData(x) ==
    [x |-> x, n_row |-> NRow, n_col |-> NPredictor,
     predictor_index |-> EmptyVec, unique_predictor_values |-> EmptyVec,
     max_n_unique_value |-> 0, permuted_sample_keys |-> EmptyVec]

InitData ==
    /\ parameters = << >>
    /\ data \in {RawData(x) : x \in {XBits, XRamp, XLevels, XPairs, XFlat}}
    /\ case_weights = EmptyVec
    /\ compute_oob_error = FALSE
    /\ is_ordered = EmptyVec
    /\ pc = "idle"
    /\ TreeVarsEmpty
    /\ NoForest
    /\ NoAux

NextData ==
    \/ new_predictor_index
    \/ finalise_predictor_index
    \/ new_permutation
    \/ finalise_permutation

SpecData == InitData /\ [][NextData]_vars

(* C20: once new_predictor_index has run, the unique values of every       *)
(* predictor column are strictly increasing, the unique key of every row   *)
(* is below their number and names the row's value; with a permutation in  *)
(* place the unique key of the permuted sample k names the value of row    *)
(* perm[k].                                                                 *)
C20_UniqueKeyNamesValue ==
    has_predictor_index(data) =>
        \A c \in 0 .. data.n_col - 1 :
            LET unique == data.unique_predictor_values[c]
            IN  /\ \A i, j \in DOMAIN unique : i < j => unique[i] < unique[j]
                /\ \A r \in 0 .. data.n_row - 1 :
                       /\ rawget_unique_key(data, r, c, FALSE) < Size(unique)
                       /\ unique[rawget_unique_key(data, r, c, FALSE)]
                              = get_x(data, r, c)
                /\ Size(data.permuted_sample_keys) # 0 =>
                       \A k \in 0 .. data.n_row - 1 :
                           unique[rawget_unique_key(data, k, c, TRUE)]
                               = get_x(data, data.permuted_sample_keys[k], c)

(* the index is built for a column with repeated values that is not in     *)
(* increasing order, under a permutation that moves rows                   *)
C20_Witness ==
    /\ has_predictor_index(data)
    /\ Size(data.permuted_sample_keys) # 0
    /\ \E k \in 0 .. data.n_row - 1 : data.permuted_sample_keys[k] # k
    /\ \E c \in 0 .. data.n_col - 1 :
           /\ Size(data.unique_predictor_values[c]) < data.n_row
           /\ Size(data.unique_predictor_values[c]) > 1
           /\ \E q, r \in 0 .. data.n_row - 1 :
                  q < r /\ get_x(data, q, c) > get_x(data, r, c)

(***************************************************************************)
(* The candidate draw on its own: cpp11_train hands the draw weights to    *)
(* set_draw_predictor_weights before it builds the training parameters     *)
(* (cpp11_train.cpp:296-326), and split_node draws from the result with    *)
(* TreeBase::draw_candidates.                                              *)
(***************************************************************************)
(* set_draw_predictor_weights: the exception raised, "" when none, and the *)
(* caller's weights as the call leaves them: the loop writes entry by      *)
(* entry, so a negative weight ends it with the entries before it written  *)
set_draw_predictor_weights(draw_predictor_weights, n_try, draw_always_predictor_keys) ==
    LET is_always == [j \in 0 .. n_predictor - 1 |->
                         j \in Values(draw_always_predictor_keys)]
        zeroed == [j \in DOMAIN draw_predictor_weights |->
                      IF draw_predictor_weights[j] # 0 /\ ~is_always[j]
                      THEN draw_predictor_weights[j] ELSE 0]
        n_zero_weight == Cardinality({j \in DOMAIN zeroed : zeroed[j] = 0})
        negative == {j \in DOMAIN draw_predictor_weights :
                        draw_predictor_weights[j] < 0}
    IN  IF Size(draw_predictor_weights) = 0
        THEN [error |-> "", weights |-> draw_predictor_weights]
        ELSE IF Size(draw_predictor_weights) # n_predictor
        THEN [error |-> "InvalidArgument: Number of draw-predictor weights not equal to number of predictors.",
              weights |-> draw_predictor_weights]
        ELSE IF negative # {}
        THEN [error |-> "DomainError: One or more draw-predictor weights not in range [0,Inf).",
              weights |-> [j \in DOMAIN draw_predictor_weights |->
                              IF \A k \in negative : j < k THEN zeroed[j]
                              ELSE draw_predictor_weights[j]]]
        ELSE IF n_predictor - n_zero_weight < n_try
        THEN [error |-> "InvalidArgument: Too many zeros in draw-predictor weights. Need at least n_try variables to split at.",
              weights |-> zeroed]
        ELSE [error |-> "", weights |-> zeroed]

(* the call of set_draw_predictor_weights in cpp11_train *)
SetDrawPredictorWeights ==
    /\ candidate_pc = "start"
    /\ \E r \in {set_draw_predictor_weights(
                     parameters.draw_predictor_weights, parameters.n_try,
                     parameters.draw_always_predictor_keys)} :
          /\ parameters' = [parameters EXCEPT
                                !.draw_predictor_weights = r.weights]
          /\ error' = r.error
          /\ candidate_pc' = IF r.error = "" THEN "ready" ELSE "threw"
    /\ UNCHANGED <<data, case_weights, compute_oob_error, is_ordered,
                   nodeVars, leaf_keys, response_weights, drawVars, loopVars,
                   pc, forestVars, ioVars, runVars, mergeVars, callVars, workVars,
                   predictVars, drawn_keys>>

(* one call of draw_candidates *)
DrawCandidates ==
    /\ candidate_pc \in {"ready", "drawn"}
    /\ drawn_keys' \in draw_candidates
    /\ candidate_pc' = "drawn"
    /\ UNCHANGED <<growVars, forestVars, ioVars, runVars, mergeVars, callVars, workVars,
                   predictVars>>

(* the weights a caller may pass: none, one per predictor, or too few *)
RawWeights ==
    {EmptyVec, Vec(<<1>>)} \cup [0 .. NPredictor - 1 -> {-1, 0, 1, 2}]

CandidateParameters ==
    [replace : {FALSE}, sample_fraction : {Vec(<<4>>)},
     n_try : 1 .. NPredictor,
     draw_always_predictor_keys : {SortedVec(S) : S \in SUBSET Preds},
     draw_predictor_weights : RawWeights, response_weights : {EmptyVec},
     split_rule : {"LOGRANK"}, min_metric_decrease : {0},
     max_depth : {0}, min_split_n_sample : {1}, min_leaf_n_sample : {1}]

InitCandidates ==
    /\ parameters \in CandidateParameters
    /\ data = MakeData(XBits, YAlt, Size(parameters.sample_fraction) > 1, FALSE)
    /\ case_weights = EmptyVec
    /\ compute_oob_error = FALSE
    /\ is_ordered = AllOrdered
    /\ EmptyTree
    /\ NoForest
    /\ NoIO /\ NoRun /\ NoMerge /\ NoCall /\ NoPredict /\ NoWork
    /\ drawn_keys = << >>
    /\ candidate_pc = "start"

NextCandidates == SetDrawPredictorWeights \/ DrawCandidates

SpecCandidates == InitCandidates /\ [][NextCandidates]_vars

(* C24: when n_try + |draw_always_predictor_keys| <= n_predictor, the list *)
(* draw_candidates returns, with or without draw weights (zeroed by        *)
(* set_draw_predictor_weights), has n_try + |draw_always_predictor_keys|   *)
(* keys, all below n_predictor and no two equal; its first n_try keys are  *)
(* not always-draw keys and the always-draw keys follow in their order.    *)
C24_CandidatesDistinctThenAlways ==
    (/\ candidate_pc = "drawn"
     /\ parameters.n_try + Size(parameters.draw_always_predictor_keys)
            <= n_predictor) =>
        LET n == parameters.n_try
            always == parameters.draw_always_predictor_keys
        IN  /\ Size(drawn_keys) = n + Size(always)
            /\ \A i \in DOMAIN drawn_keys : drawn_keys[i] \in 0 .. n_predictor - 1
            /\ \A i \in DOMAIN drawn_keys : \A k \in DOMAIN drawn_keys :
                   i # k => drawn_keys[i] # drawn_keys[k]
            /\ \A i \in 0 .. n - 1 : drawn_keys[i] \notin Values(always)
            /\ \A i \in DOMAIN always : drawn_keys[n + i] = always[i]

(* a weighted draw with an always-draw key has returned *)
C24_Witness ==
    /\ candidate_pc = "drawn"
    /\ Size(parameters.draw_predictor_weights) = n_predictor
    /\ Size(parameters.draw_always_predictor_keys) >= 1
    /\ Size(drawn_keys)
          = parameters.n_try + Size(parameters.draw_always_predictor_keys)

(***************************************************************************)
(* Workers and the progress loop.  A call that hands work items to workers *)
(* runs one worker per interval of trees and ForestBase::show_progress on  *)
(* the calling thread.  predict_one_tree and oob_one_tree                  *)
(* (ForestClassification.defn.h:184-209, 240-268, 319-414) and             *)
(* show_progress (ForestBase.defn.h:103-161) are the code; the loop of a   *)
(* worker over its interval is in Forest.defn.h.                           *)
(***************************************************************************)
NThread == 2
Workers == 1 .. NThread

(* the trees of the interval of worker w, and the one after tree t in it   *)
interval(w) == {t \in 0 .. NTree - 1 : (t * NThread) \div NTree = w - 1}
first_item(w) == CHOOSE t \in interval(w) : \A u \in interval(w) : t <= u
next_item(w, t) == IF t + 1 \in interval(w) THEN t + 1 ELSE NTree

(* show_progress's argument max_events: one event per tree *)
max_events == NTree

(* a lock that is not taken *)
unique_lock_mut(thread) == mutex' = mutex

(* std::unique_lock<std::mutex> lock(mutex) by `thread` *)
unique_lock(thread) == mutex = -1 /\ mutex' = thread

(* condition_variable.notify_one(): the progress loop, if it is blocked in *)
(* wait, is woken and has to take the mutex again                          *)
notify_one == IF progress_pc = "wait" THEN "wake" ELSE progress_pc

(* the rows a tree predicts: its out-of-bag rows, the rows new_predictions *)
(* assigned to it, or every row                                            *)
work_keys(t) ==
    IF work_kind = "OOB" THEN oob_keys_by_tree[t]
    ELSE IF work_kind = "INBAG" THEN prediction_keys_by_tree[t]
    ELSE [r \in 0 .. data.n_row - 1 |-> r]

(* the local buffer a worker can fill for tree t before it takes the lock, *)
(* with the tree's cache of bagged leaf predictions as the calls leave it  *)
TreePredictions(t) ==
    LET keys == work_keys(t)
        leaf(j) == PredictLeaf(trees[t], 0, keys[j])
        visited == {leaf(j) : j \in DOMAIN keys}
        cached == DOMAIN trees[t].leaf_most_frequent
    IN  IF work_kind = "NODES"
        THEN {[buffer |-> [j \in DOMAIN keys |-> leaf(j)],
               most_frequent |-> trees[t].leaf_most_frequent]}
        ELSE IF work_kind = "INBAG"
        THEN {[buffer |-> b, most_frequent |-> trees[t].leaf_most_frequent]
              : b \in {c \in [DOMAIN keys -> 0 .. Size(PredictResponseValues) - 1] :
                          \A j \in DOMAIN keys :
                              c[j] \in predict_from_inbag_inbag(trees[t], leaf(j))}}
        ELSE {[buffer |-> [j \in DOMAIN keys |-> mf[leaf(j)]], most_frequent |-> mf]
              : mf \in {c \in [cached \cup visited -> 0 .. Size(PredictResponseValues) - 1] :
                           \A l \in cached \cup visited :
                               IF l \in cached
                               THEN c[l] = trees[t].leaf_most_frequent[l]
                               ELSE c[l] \in most_frequent_value(
                                                 LeafCounts(trees[t], l))}}

(* what no step of a worker or of the progress loop changes *)
workFixed ==
    <<growVars, forest_save_memory, forest_parameters, oob_keys_by_tree, tree_key, forest_pc,
      oob_error, ioVars, runVars, mergeVars, callVars, candidateVars,
      prediction_keys_by_tree, predicted_trees, predict_pc, work_kind,
      user_interrupt>>
accumulators ==
    <<oob_predictions, aggregate_predictions, predictions_to_bag,
      prediction_nodes>>

(* predict_one_tree / oob_one_tree of worker w up to the lock: the tree's  *)
(* predictions go to the local tree_predictions (oob_values)               *)
predict_one_tree_compute(w) ==
    /\ worker_pc[w] = "predict"
    /\ \E p \in TreePredictions(work_item[w]) :
          /\ worker_predictions' = [worker_predictions EXCEPT ![w] = p.buffer]
          /\ trees' = [trees EXCEPT
                          ![work_item[w]].leaf_most_frequent = p.most_frequent]
    /\ worker_pc' = [worker_pc EXCEPT ![w] = "lock_write"]
    /\ UNCHANGED <<workFixed, accumulators, mutex, event_count, interrupted,
                   progress_pc, work_item>>

(* the lock of predict_one_tree / oob_one_tree *)
predict_one_tree_lock(w) ==
    /\ worker_pc[w] = "lock_write"
    /\ unique_lock(w)
    /\ worker_pc' = [worker_pc EXCEPT ![w] = "write"]
    /\ UNCHANGED <<workFixed, accumulators, trees, event_count, interrupted,
                   progress_pc, work_item, worker_predictions>>

(* the copy of the local buffer to the accumulator of the forest *)
predict_one_tree_write(w) ==
    /\ worker_pc[w] = "write"
    /\ LET t == work_item[w]
           keys == work_keys(t)
           buffer == worker_predictions[w]
       IN  /\ oob_predictions' =
                  IF work_kind = "OOB"
                  THEN [r \in DOMAIN oob_predictions |->
                           IF r \in Values(keys)
                           THEN PushBack(oob_predictions[r], buffer[Find(keys, r)])
                           ELSE oob_predictions[r]]
                  ELSE oob_predictions
           /\ predictions_to_bag' =
                  IF work_kind = "BAGGED"
                  THEN [r \in DOMAIN predictions_to_bag |->
                           PushBack(predictions_to_bag[r], buffer[r])]
                  ELSE predictions_to_bag
           /\ aggregate_predictions' =
                  IF work_kind = "INBAG"
                  THEN [r \in DOMAIN aggregate_predictions |->
                           IF r \in Values(keys)
                           THEN PredictResponseValues[buffer[Find(keys, r)]]
                           ELSE aggregate_predictions[r]]
                  ELSE aggregate_predictions
           /\ prediction_nodes' =
                  IF work_kind = "NODES"
                  THEN [r \in DOMAIN prediction_nodes |->
                           [prediction_nodes[r] EXCEPT ![t] = buffer[r]]]
                  ELSE prediction_nodes
    /\ worker_pc' = [worker_pc EXCEPT ![w] = "unlock_write"]
    /\ UNCHANGED <<workFixed, trees, mutex, event_count, interrupted,
                   progress_pc, work_item, worker_predictions>>

(* the end of the block that holds the lock *)
predict_one_tree_unlock(w) ==
    /\ worker_pc[w] = "unlock_write"
    /\ mutex' = -1
    /\ worker_pc' = [worker_pc EXCEPT ![w] = "lock_event"]
    /\ UNCHANGED <<workFixed, accumulators, trees, event_count, interrupted,
                   progress_pc, work_item, worker_predictions>>

(* the worker takes the mutex to count the finished item *)
count_event_lock(w) ==
    /\ worker_pc[w] = "lock_event"
    /\ unique_lock(w)
    /\ worker_pc' = [worker_pc EXCEPT ![w] = "event"]
    /\ UNCHANGED <<workFixed, accumulators, trees, event_count, interrupted,
                   progress_pc, work_item, worker_predictions>>

(* under the mutex: a worker that sees interrupted leaves its loop, any    *)
(* other increments event_count; both notify the condition variable        *)
count_event(w) ==
    /\ worker_pc[w] = "event"
    /\ IF interrupted
       THEN /\ worker_pc' = [worker_pc EXCEPT ![w] = "done"]
            /\ UNCHANGED <<event_count, work_item>>
       ELSE /\ event_count' = event_count + 1
            /\ work_item' = [work_item EXCEPT ![w] = next_item(w, work_item[w])]
            /\ worker_pc' = [worker_pc EXCEPT ![w] =
                                IF next_item(w, work_item[w]) = NTree
                                THEN "done" ELSE "predict"]
    /\ progress_pc' = notify_one
    /\ mutex' = -1
    /\ UNCHANGED <<workFixed, accumulators, trees, interrupted,
                   worker_predictions>>

(* show_progress: std::unique_lock<std::mutex> lock(mutex) *)
show_progress_lock ==
    /\ progress_pc = "lock"
    /\ unique_lock(0)
    /\ progress_pc' = "test"
    /\ UNCHANGED <<workFixed, accumulators, trees, event_count, interrupted,
                   worker_pc, work_item, worker_predictions>>

(* an event_count that has reached max_events still counts as unfinished   *)
more_events_mut == event_count <= max_events

(* show_progress: event_count < max_events, the first operand of the test  *)
(* of the while loop                                                        *)
more_events == event_count < max_events

(* show_progress: the test of the while loop, then either the return, which *)
(* unlocks, or condition_variable.wait(lock), which unlocks and blocks      *)
show_progress_test ==
    /\ progress_pc = "test"
    /\ IF more_events
       THEN /\ interrupted' = (interrupted \/ user_interrupt)
            /\ progress_pc' = IF interrupted \/ user_interrupt
                              THEN "done" ELSE "wait"
       ELSE /\ interrupted' = interrupted
            /\ progress_pc' = "done"
    /\ mutex' = -1
    /\ UNCHANGED <<workFixed, accumulators, trees, event_count, worker_pc,
                   work_item, worker_predictions>>

(* show_progress: wait returns once it holds the mutex again *)
show_progress_wake ==
    /\ progress_pc = "wake"
    /\ unique_lock(0)
    /\ progress_pc' = "test"
    /\ UNCHANGED <<workFixed, accumulators, trees, event_count, interrupted,
                   worker_pc, work_item, worker_predictions>>

(* condition_variable.wait may wake without a notification *)
spurious_wake ==
    /\ progress_pc = "wait"
    /\ progress_pc' = "wake"
    /\ UNCHANGED <<workFixed, accumulators, trees, mutex, event_count,
                   interrupted, worker_pc, work_item, worker_predictions>>

(* the user interrupts: from now on the probe returns true *)
UserInterrupt ==
    /\ ~user_interrupt
    /\ progress_pc # "done"
    /\ user_interrupt' = TRUE
    /\ UNCHANGED <<growVars, forestVars, ioVars, runVars, mergeVars, callVars,
                   candidateVars, predictVars, work_kind, mutex, event_count,
                   interrupted, progress_pc, worker_pc, work_item,
                   worker_predictions, predictions_to_bag, prediction_nodes>>

WorkerStep(w) ==
    \/ predict_one_tree_compute(w)
    \/ predict_one_tree_lock(w)
    \/ predict_one_tree_write(w)
    \/ predict_one_tree_unlock(w)
    \/ count_event_lock(w)
    \/ count_event(w)

ProgressStep == show_progress_lock \/ show_progress_test \/ show_progress_wake

(* a forest of trees with no empty leaf *)
WorkForests ==
    {[t \in 0 .. NTree - 1 |->
         IF t % 2 = a THEN PredictTree(TRUE, Vec(<<0, 1>>))
         ELSE PredictTree(FALSE, Vec(<<0, 0>>))] : a \in {0, 1}}

InitWork ==
    /\ parameters = << >>
    /\ data = NewData(XRamp, YAlt)
    /\ case_weights = EmptyVec
    /\ compute_oob_error = FALSE
    /\ is_ordered = AllOrdered
    /\ pc = "idle"
    /\ TreeVarsEmpty
    /\ forest_save_memory = FALSE
    /\ forest_parameters = EmptyVec
    /\ trees \in WorkForests
    /\ tree_key = 0
    /\ forest_pc = "idle"
    /\ oob_error = [num |-> 0, den |-> 1]
    /\ NoIO /\ NoRun /\ NoMerge /\ NoCall /\ NoCandidate
    /\ predicted_trees = {}
    /\ predict_pc = "idle"
    /\ work_kind \in {"OOB", "BAGGED", "INBAG", "NODES"}
    /\ oob_keys_by_tree =
          IF work_kind = "OOB"
          THEN [t \in 0 .. NTree - 1 |-> SortedVec({r \in Rows : r % 2 = t % 2})]
          ELSE EmptyVec
    /\ oob_predictions =
          IF work_kind = "OOB" THEN [r \in Rows |-> EmptyVec] ELSE EmptyVec
    /\ prediction_keys_by_tree =
          IF work_kind = "INBAG"
          THEN assign_predictions([r \in Rows |-> r % NTree])
          ELSE EmptyVec
    /\ aggregate_predictions =
          IF work_kind \in {"BAGGED", "INBAG"} THEN [r \in Rows |-> 0]
          ELSE EmptyVec
    /\ predictions_to_bag =
          IF work_kind = "BAGGED" THEN [r \in Rows |-> EmptyVec] ELSE << >>
    /\ prediction_nodes =
          IF work_kind = "NODES"
          THEN [r \in Rows |-> [t \in 0 .. NTree - 1 |-> 0]] ELSE << >>
    /\ mutex = -1
    /\ event_count = 0
    /\ interrupted = FALSE
    /\ user_interrupt = FALSE
    /\ progress_pc = "lock"
    /\ worker_pc = [w \in Workers |-> "predict"]
    /\ work_item = [w \in Workers |-> first_item(w)]
    /\ worker_predictions = [w \in Workers |-> EmptyVec]

NextWork ==
    \/ \E w \in Workers : WorkerStep(w)
    \/ ProgressStep
    \/ spurious_wake
    \/ UserInterrupt

SpecWork == InitWork /\ [][NextWork]_vars

(* fair scheduling: a thread that can again and again take a step (the     *)
(* mutex is free again and again while it waits for it) eventually takes   *)
(* one; nothing makes the user interrupt, or wait wake without a           *)
(* notification                                                            *)
SpecWorkFair ==
    /\ SpecWork
    /\ SF_vars(ProgressStep)
    /\ \A w \in Workers : SF_vars(WorkerStep(w))

(* C25: a step that writes oob_predictions, predictions_to_bag,            *)
(* prediction_nodes or aggregate_predictions is the step of a worker that  *)
(* holds the mutex; a step that fills a worker's local buffer is taken     *)
(* without the mutex and writes no accumulator; the progress loop holds    *)
(* the mutex whenever it tests event_count and interrupted, and            *)
(* interrupted is set only by that test.                                   *)
C25_SharedWritesUnderMutex ==
    /\ [][ /\ accumulators' # accumulators =>
                 \E w \in Workers :
                     /\ mutex = w
                     /\ worker_pc[w] = "write"
                     /\ worker_pc'[w] # "write"
           /\ \A w \in Workers :
                 worker_predictions'[w] # worker_predictions[w] =>
                     mutex # w /\ accumulators' = accumulators
           /\ interrupted' # interrupted =>
                 mutex = 0 /\ progress_pc = "test" ]_vars
    /\ [](progress_pc = "test" => mutex = 0)

(* a worker has written its tree's predictions to predictions_to_bag and   *)
(* holds the mutex while the other worker waits for it                     *)
C25_Witness ==
    /\ work_kind = "BAGGED"
    /\ \E r \in DOMAIN predictions_to_bag : Size(predictions_to_bag[r]) > 0
    /\ \E w \in Workers : \E v \in Workers :
          /\ mutex = w
          /\ worker_pc[v] = "lock_write"

(* C26: if the probe returns true while show_progress is blocked in wait,  *)
(* interrupted is eventually set.                                          *)
C26_InterruptSeenWhileWaiting ==
    (progress_pc = "wait" /\ user_interrupt) ~> interrupted

(* C27: show_progress returns; it has returned only if event_count has     *)
(* reached max_events or interrupted is set; and it is never blocked in    *)
(* wait, with no wake-up under way, when event_count has reached           *)
(* max_events.                                                             *)
C27_ProgressLoopReturns ==
    /\ <>(progress_pc = "done")
    /\ [](progress_pc = "done" => (event_count >= max_events \/ interrupted))
    /\ [](progress_pc = "wait" => event_count < max_events)

(* show_progress has returned after it waited for the last item: every     *)
(* item was counted and nobody interrupted                                 *)
C27_Witness ==
    /\ progress_pc = "done"
    /\ event_count = max_events
    /\ ~interrupted
    /\ ~user_interrupt
    /\ \A w \in Workers : worker_pc[w] = "done"

(***************************************************************************)
(* Aggregation of bagged predictions.  After the trees have filled         *)
(* predictions_to_bag, predict splits the rows into one interval per       *)
(* worker and every worker calls aggregate_one_item<BAGGED>                *)
(* (ForestClassification.defn.h:271-281) for the rows of its interval,     *)
(* then counts the row under the mutex (Forest.defn.h).  The progress loop *)
(* touches none of the variables written here and is left out.             *)
(***************************************************************************)
AggregateResponseValues == Vec(<<5, 7, 9>>)

(* the rows of the interval of worker w, and the one after row r in it *)
item_interval(w) == {r \in Rows : (r * NThread) \div NRow = w - 1}
first_row(w) == CHOOSE r \in item_interval(w) : \A q \in item_interval(w) : r <= q
next_row(w, r) == IF r + 1 \in item_interval(w) THEN r + 1 ELSE NRow

(* most_frequent_value(counts, gen) (literanger/utility.h): the key with   *)
(* the largest count; equally frequent keys are told apart by a uniform    *)
(* draw from gen, and only then is gen advanced                            *)
most_frequent_value_gen(counts, gen) ==
    LET major == SortedVec(most_frequent_value(counts))
    IN  IF Size(major) = 1
        THEN [value |-> major[0], gen |-> gen, drew |-> FALSE]
        ELSE [value |-> major[Drawn(gen) % Size(major)],
              gen |-> Stepped(gen), drew |-> TRUE]

(* what no step of the aggregation changes *)
aggregateFixed ==
    <<growVars, forestVars, ioVars, mergeVars, callVars, candidateVars,
      plant_seed, plant_n_thread, plant_run, plant_trees, next_tree, plant_pc,
      first_trees, prediction_keys_by_tree, predicted_trees, predict_pc,
      work_kind, interrupted, user_interrupt, progress_pc, predictions_to_bag,
      prediction_nodes>>

(* aggregate_one_item<BAGGED> of worker w, first half: the counts of the   *)
(* row are made and most_frequent_value reads the state of the forest's    *)
(* generator; no lock is held                                              *)
aggregate_one_item_read(w) ==
    /\ worker_pc[w] = "aggregate"
    /\ worker_predictions' = [worker_predictions EXCEPT ![w] = Vec(<<forest_gen>>)]
    /\ worker_pc' = [worker_pc EXCEPT ![w] = "draw"]
    /\ UNCHANGED <<aggregateFixed, forest_gen, aggregate_predictions, mutex,
                   event_count, work_item>>

(* aggregate_one_item<BAGGED> of worker w, second half: when keys are tied *)
(* the generator is left one draw after the state that was read, and the   *)
(* response value of the key is stored for the row                         *)
aggregate_one_item_store(w) ==
    /\ worker_pc[w] = "draw"
    /\ \E r \in {most_frequent_value_gen(
                     PredictionCounts(predictions_to_bag, work_item[w]),
                     worker_predictions[w][0])} :
          /\ aggregate_predictions' =
                 [aggregate_predictions EXCEPT ![work_item[w]] =
                      AggregateResponseValues[r.value]]
          /\ forest_gen' = IF r.drew THEN r.gen ELSE forest_gen
    /\ worker_pc' = [worker_pc EXCEPT ![w] = "count"]
    /\ UNCHANGED <<aggregateFixed, mutex, event_count, work_item,
                   worker_predictions>>

(* the worker takes the mutex, counts the row, releases the mutex and goes *)
(* to the next row of its interval                                         *)
aggregate_interval_event(w) ==
    /\ worker_pc[w] = "count"
    /\ mutex = -1
    /\ event_count' = event_count + 1
    /\ work_item' = [work_item EXCEPT ![w] = next_row(w, work_item[w])]
    /\ worker_pc' = [worker_pc EXCEPT ![w] =
                        IF next_row(w, work_item[w]) = NRow
                        THEN "done" ELSE "aggregate"]
    /\ UNCHANGED <<aggregateFixed, forest_gen, aggregate_predictions, mutex,
                   worker_predictions>>

(* what the trees can have predicted for the rows: one key for every row,  *)
(* or the keys in turn                                                     *)
BagPatterns ==
    {[r \in Rows |-> k] : k \in DOMAIN AggregateResponseValues}
        \cup {[r \in Rows |-> r % Size(AggregateResponseValues)]}

(* the seeds of the prediction call *)
AggregateSeeds == 1 .. 3

(* predict<BAGGED> after the barrier of the tree workers: the generator    *)
(* was seeded at the start of the call, every row has one prediction per   *)
(* tree, and the workers are at the first row of their intervals           *)
InitAggregate ==
    /\ parameters = << >>
    /\ data = NewData(XRamp, YMod3)
    /\ case_weights = EmptyVec
    /\ compute_oob_error = FALSE
    /\ is_ordered = AllOrdered
    /\ pc = "idle"
    /\ TreeVarsEmpty
    /\ NoForest
    /\ NoIO /\ NoMerge /\ NoCall /\ NoCandidate
    /\ plant_seed \in AggregateSeeds
    /\ plant_n_thread = NThread
    /\ plant_run = 0
    /\ forest_gen \in forest_seed_gen(plant_seed)
    /\ plant_trees = EmptyVec
    /\ next_tree = EmptyVec
    /\ plant_pc = "idle"
    /\ first_trees = << >>
    /\ prediction_keys_by_tree = EmptyVec
    /\ predicted_trees = {}
    /\ predict_pc = "idle"
    /\ work_kind = "AGGREGATE"
    /\ \E pattern \in [0 .. NTree - 1 -> BagPatterns] :
          predictions_to_bag =
              [r \in Rows |-> [t \in 0 .. NTree - 1 |-> pattern[t][r]]]
    /\ aggregate_predictions = [r \in Rows |-> 0]
    /\ prediction_nodes = << >>
    /\ mutex = -1
    /\ event_count = 0
    /\ interrupted = FALSE
    /\ user_interrupt = FALSE
    /\ progress_pc = "idle"
    /\ worker_pc = [w \in Workers |-> "aggregate"]
    /\ work_item = [w \in Workers |-> first_row(w)]
    /\ worker_predictions = [w \in Workers |-> EmptyVec]

NextAggregate ==
    \E w \in Workers :
        \/ aggregate_one_item_read(w)
        \/ aggregate_one_item_store(w)
        \/ aggregate_interval_event(w)

SpecAggregate == InitAggregate /\ [][NextAggregate]_vars

(* the predictions of one worker that aggregates every row in turn, from   *)
(* row r on, with the generator in state gen                               *)
RECURSIVE SerialAggregate(_, _, _)
SerialAggregate(r, gen, acc) ==
    IF r = NRow THEN acc
    ELSE \* one call of aggregate_one_item<BAGGED>
         LET m == most_frequent_value_gen(
                      PredictionCounts(predictions_to_bag, r), gen)
         IN  SerialAggregate(r + 1, m.gen,
                 [acc EXCEPT ![r] = AggregateResponseValues[m.value]])

(* C30: when every worker has aggregated its rows, the predictions are     *)
(* those that the seed of the call determines, whatever the order in which *)
(* the workers took their steps: the predictions one worker makes when it  *)
(* aggregates the rows in turn.                                            *)
C30_AggregationIndependentOfSchedule ==
    (\A w \in Workers : worker_pc[w] = "done") =>
        aggregate_predictions
            = SerialAggregate(0, Seeded(plant_seed), [r \in Rows |-> 0])

====
